---- MODULE Spec2Model ----
(***************************************************************************)
(* A model of the byterun bytecode interpreter (homework/byterun):          *)
(* the VirtualMachine object (pyvm2.py), Frame and Generator (pyobj.py).    *)
(* Each public method of the engine is one action; the instruction          *)
(* handlers are operators applied by dispatch.                              *)
(***************************************************************************)
EXTENDS Integers, Sequences, FiniteSets, TLC

\* ------------------------------------------------------------------ bounds
\* Calls of engine methods made in one run.
MaxOps == 7
\* Entries of the operand stack of a frame taken over in the middle of its run.
MaxDepth == 4
\* Calls of engine methods made on a frame taken over in the middle of its run.
MaxSteps == 2
\* Calls of engine methods made on a frame that returns through a finally block.
MaxFinally == 5

\* ------------------------------------------------------------------ values
\* A Python value: its type name t, a string payload s, an integer payload n.
NoneV == [t |-> "NoneType", s |-> "", n |-> 0]
StrV(x) == [t |-> "str", s |-> x, n |-> 0]
IntV(k) == [t |-> "int", s |-> "", n |-> k]
\* A class object (type(value) is type).
ClassV(name) == [t |-> "type", s |-> name, n |-> 0]
\* An instance of the exception class cls with message m.
ExcV(cls, m) == [t |-> cls, s |-> m, n |-> 0]
\* A Generator object, by its index in gens.
GenV(g) == [t |-> "Generator", s |-> "", n |-> g]
\* A Function object, by the name of its code.
FuncV(name) == [t |-> "function", s |-> name, n |-> 0]
\* A host iterator (iter of a list) that still has the items k, k - 1, .., 1
\* to give.
IterV(k) == [t |-> "list_iterator", s |-> "", n |-> k]

\* A function of the host, such as sys.exit.
BuiltinV(name) == [t |-> "builtin_function_or_method", s |-> name, n |-> 0]
\* A context manager whose __enter__ returns 'entered' and whose __exit__
\* returns bool(r); with s = "__exit__" the value is its bound __exit__.
CtxV(r) == [t |-> "CM", s |-> "", n |-> r]
\* The n-th Method of the host heap (see Methods).
MethodV(m) == [t |-> "Method", s |-> "", n |-> m]
\* True and False; n is the bool as the int it is.
BoolV(b) == [t |-> "bool", s |-> "", n |-> IF b THEN 1 ELSE 0]
\* The tuple (1, .., k).
TupleV(k) == [t |-> "tuple", s |-> "", n |-> k]

\* Exception classes that derive from Exception (caught by "except Exception").
ExceptionClasses ==
    {"Exception", "TypeError", "ValueError", "NameError", "AttributeError",
     "IndexError", "KeyError", "AssertionError", "StopIteration",
     "ZeroDivisionError", "VirtualMachineError"}
\* Classes that derive from BaseException.
BaseExceptionClasses == ExceptionClasses \cup {"KeyboardInterrupt", "SystemExit"}

IsStr(v) == v.t = "str"
IsNone(v) == v = NoneV
IsClass(v) == v.t = "type"
IsExcClass(v) == IsClass(v) /\ v.s \in BaseExceptionClasses
IsExcInstance(v) == v.t \in BaseExceptionClasses

\* The constants a LOAD_CONST of the model may push.
Consts == {NoneV, IntV(1), StrV("return"), ClassV("int"), ClassV("ValueError")}

\* ------------------------------------------------------------------- state
VARIABLES
    frames,          \* VirtualMachine.frames: the frame stack (frame ids)
    frame,           \* VirtualMachine.frame: the current frame id, 0 for None
    return_value,    \* VirtualMachine.return_value
    last_exception,  \* VirtualMachine.last_exception: <<>> for None, else <<type, value, tb>>
    heap,            \* the Frame objects alive, by id
    gens,            \* the Generator objects, by id
    cellobjs,        \* the Cell objects, by id: the contents of each
    outcome,         \* what the last call of an engine method did (its return or raise)
    ops              \* the number of calls made so far

vars == <<frames, frame, return_value, last_exception, heap, gens, cellobjs, outcome, ops>>

\* One more call of an engine method, within the bound of the run.
Call == ops < MaxOps /\ ops' = ops + 1

\* The parameter names of the interpreted functions called.
ParamNames == {"a", "b", "c"}
\* A name that f_locals does not hold.
Unbound == [t |-> "unbound", s |-> "", n |-> 0]
\* f_locals = {} as make_frame builds it for a call without arguments.
NoLocals == [p \in ParamNames |-> Unbound]
\* The keyword arguments of a call: a value, or Unbound, for each name.
NoKwargs == [p \in ParamNames |-> Unbound]
\* A Block (type, handler, level); NoBlock stands for no block at all.
Block(type, handler, level) == [type |-> type, handler |-> handler, level |-> level]
NoBlock == Block("", NoneV, 0)
\* Frame.cells: None (none), else a dict; counter and a are the ids of the
\* Cells held under the names "counter" and "a", 0 if the dict has no such key.
NoCells == [none |-> TRUE, counter |-> 0, a |-> 0]

\* A Frame.__init__ that would start the callee on the operand stack of its
\* caller instead of a stack of its own.
NewFrame_CallerStack(back, gen) ==
    [stack |-> IF back = 0 THEN <<>> ELSE heap[back].stack,
     block_stack |-> <<>>, f_lasti |-> IntV(0), f_back |-> back,
     generator |-> gen, f_locals |-> NoLocals, cells |-> NoCells]

\* Frame.__init__ for code without cell or free variables: a fresh activation
\* record. f_lasti is what jump stores, a value.
NewFrame(back, gen) ==
    [stack |-> <<>>, block_stack |-> <<>>, f_lasti |-> IntV(0), f_back |-> back,
     generator |-> gen, f_locals |-> NoLocals, cells |-> NoCells]

\* A Generator.__init__ that would start with finished set.
NewGenerator_Finished(f) == [gi_frame |-> f, started |-> FALSE, finished |-> TRUE]

\* Generator.__init__
NewGenerator(f) == [gi_frame |-> f, started |-> FALSE, finished |-> FALSE]

\* The record of a call: op the method, raised the class of the exception that
\* left it ("" for a normal return), msg its message, value the returned value,
\* why the reason a handler or the run loop ended with, hraised the exception a
\* handler raised inside dispatch, exc the exception the run loop caught,
\* report the result of the diagnostic report, gen and arg the generator and
\* value of a send with the generator's flags when send was entered, out the
\* standard output written, prog the program run, stack the operand stack of
\* the top-level frame when run_code's run_frame ended. For a call of a
\* Function: fn, pos and kw the function and its arguments, made whether a
\* Frame was built, locals, stack and cells those of that Frame. fr is the frame
\* handed to run_frame and cur the engine's current frame while the body of the
\* call ran. ins is the instruction dispatched; why0, block, stack0 and le0 are
\* the reason handed to manage_block_stack, the innermost block, the operand
\* stack and last_exception when it was called. code and offset are the
\* co_code and the offset handed to parse_byte_and_args, next the offset it
\* returned. ret is the list popn returned.
NoCall ==
    [op |-> "", raised |-> "", msg |-> "", value |-> NoneV, why |-> "",
     hraised |-> "", exc |-> "", report |-> "", gen |-> 0, arg |-> NoneV,
     out |-> <<>>, prog |-> "", started0 |-> FALSE, finished0 |-> FALSE,
     stack |-> <<>>, fn |-> "", pos |-> <<>>, kw |-> NoKwargs, made |-> FALSE,
     locals |-> NoLocals, cells |-> NoCells, fr |-> 0, cur |-> 0, ins |-> "",
     why0 |-> "", block |-> NoBlock, stack0 |-> <<>>, le0 |-> <<>>,
     code |-> <<>>, offset |-> 0, next |-> 0, ret |-> <<>>, rv0 |-> NoneV,
     exited |-> <<>>]

\* VirtualMachine.__init__
Init ==
    /\ frames = <<>>
    /\ frame = 0
    /\ return_value = NoneV
    /\ last_exception = <<>>
    /\ heap = <<>>
    /\ gens = <<>>
    /\ cellobjs = <<>>
    /\ outcome = NoCall
    /\ ops = 0

\* One more call on a frame taken over in the middle of its run.
Step == ops < MaxSteps

\* All sequences over S of length at most n.
SeqsUpTo(S, n) == UNION {[1..k -> S] : k \in 0..n}

\* The engine in the middle of a run: make_frame and push_frame have made one
\* frame current, instructions have left the operand stack s and the block
\* stack bs on it and le in last_exception. With isgen the frame is that of a
\* Generator that was started.
InitWith(stacks, blockstacks, les, isgen) ==
    \E s \in stacks, bs \in blockstacks, le \in les :
        /\ frames = <<1>>
        /\ frame = 1
        /\ return_value = NoneV
        /\ last_exception = le
        /\ heap = <<[NewFrame(0, IF isgen THEN 1 ELSE 0) EXCEPT
                       !.stack = s, !.block_stack = bs]>>
        /\ gens = IF isgen THEN <<[NewGenerator(1) EXCEPT !.started = TRUE]>> ELSE <<>>
        /\ cellobjs = <<>>
        /\ outcome = NoCall
        /\ ops = 0

\* ---------------------------------------------------------------- run_frame
\* The attributes of a VirtualMachine object: those __init__ sets and the
\* methods the run loop would use.
VirtualMachineAttrs ==
    {"frames", "frame", "return_value", "last_exception", "push_frame",
     "pop_frame", "dispatch", "manage_block_stack", "handle_exception"}
\* The attributes of a host code object the run loop reads.
CodeAttrs == {"co_code", "co_consts", "co_names", "co_flags", "co_cellvars",
              "co_freevars", "co_firstlineno"}
\* The global names of module pyvm2.
ModuleGlobals ==
    {"dis", "inspect", "linecache", "logging", "operator", "reprlib", "sys",
     "traceback", "Block", "Frame", "Function", "Generator", "log",
     "repr_obj", "repper", "VirtualMachineError", "VirtualMachine"}

\* The try body of run_frame, "frame.f_code.co_func(...)": run_frame is declared
\* (frame, self) and called as vm.run_frame(f), so the name frame is bound to
\* the VirtualMachine. The class of the exception the body raises, "" if none.
RunFrameBody ==
    IF "f_code" \notin VirtualMachineAttrs THEN "AttributeError"
    ELSE IF "co_func" \notin CodeAttrs THEN "AttributeError"
    ELSE ""

\* The diagnostic report in the except clause of run_frame: a call of the
\* global name handle_exception. "ok" if the call returns, else the class raised.
RunFrameReport == IF "handle_exception" \in ModuleGlobals THEN "ok" ELSE "NameError"

MsgOf(cls) ==
    CASE cls = "NameError" -> "name 'handle_exception' is not defined"
      [] cls = "AttributeError" -> "'VirtualMachine' object has no attribute 'f_code'"
      [] OTHER -> ""

\* The methods and attributes run_frame calls.
RunFrameCalls == {"co_func", "handle_exception", "with_traceback"}

\* VirtualMachine.run_frame: it touches no state of the engine. exc is the
\* exception the loop caught (why = "exception"), report the result of the
\* diagnostic report, raised what leaves run_frame; pushed and popped tell
\* whether it calls push_frame and pop_frame.
RunFrameResult ==
    LET exc == RunFrameBody
        rep == IF exc = "" THEN "" ELSE RunFrameReport
        raised == IF exc = "" THEN ""
                  ELSE IF rep # "ok" THEN rep
                  ELSE exc
    IN [why |-> IF exc = "" THEN "return" ELSE "exception",
        exc |-> exc, report |-> rep, raised |-> raised, msg |-> MsgOf(raised),
        value |-> NoneV, pushed |-> "push_frame" \in RunFrameCalls,
        popped |-> "pop_frame" \in RunFrameCalls]

\* VirtualMachine.run_frame called directly on a frame of the heap.
RunFrame(f) ==
    /\ Call
    /\ f \in 1..Len(heap)
    /\ LET r == RunFrameResult
       IN outcome' = [NoCall EXCEPT !.op = "run_frame", !.why = r.why, !.exc = r.exc,
                        !.report = r.report, !.raised = r.raised, !.msg = r.msg,
                        !.value = r.value, !.fr = f,
                        !.cur = IF r.pushed THEN f ELSE frame]
    /\ UNCHANGED <<frames, frame, return_value, last_exception, heap, gens, cellobjs>>

\* ----------------------------------------------------------------- run_code
\* The programs handed to run_code, and what the reference interpreter
\* (exec in VmTestCase.assert_ok) does with each.
LoopProgram == "total = 0; for x in [1, 2, 3]: total += x; if total > 2: break"
Programs == {"pass", "print('a')", "raise ValueError('x')", LoopProgram}

PyReference(prog) ==
    CASE prog = "pass" ->
           [raised |-> "", msg |-> "", value |-> NoneV, out |-> <<>>]
      [] prog = "print('a')" ->
           [raised |-> "", msg |-> "", value |-> NoneV, out |-> <<"a">>]
      [] prog = "raise ValueError('x')" ->
           [raised |-> "ValueError", msg |-> "x", value |-> NoneV, out |-> <<>>]
      [] prog = LoopProgram ->
           [raised |-> "", msg |-> "", value |-> NoneV, out |-> <<>>]

\* VirtualMachine.run_code: make_frame, run_frame, then the leftover checks.
\* The frame it makes is local to the call; run_frame never pushes it.
RunCode(prog) ==
    /\ Call
    /\ prog \in Programs
    /\ LET r == RunFrameResult
           top == NewFrame(frame, 0)
           left == IF r.raised # "" THEN r.raised
                   ELSE IF frames # <<>> THEN "VirtualMachineError"
                   ELSE IF frame # 0 /\ heap[frame].stack # <<>> THEN "VirtualMachineError"
                   ELSE ""
           msg == IF r.raised # "" THEN r.msg
                  ELSE IF frames # <<>> THEN "Frames left over!"
                  ELSE IF left # "" THEN "Data remains on stack!"
                  ELSE ""
       IN outcome' = [NoCall EXCEPT !.op = "run_code", !.prog = prog, !.why = r.why,
                        !.exc = r.exc, !.report = r.report, !.raised = left,
                        !.msg = msg, !.value = r.value, !.stack = top.stack]
    /\ UNCHANGED <<frames, frame, return_value, last_exception, heap, gens, cellobjs>>

\* ------------------------------------------------------- frames of the engine
\* VirtualMachine.push_frame
PushFrame(f) ==
    /\ Call
    /\ f \in 1..Len(heap)
    /\ frames' = Append(frames, f)
    /\ frame' = f
    /\ outcome' = [NoCall EXCEPT !.op = "push_frame"]
    /\ UNCHANGED <<return_value, last_exception, heap, gens, cellobjs>>

\* VirtualMachine.pop_frame
PopFrame ==
    /\ Call
    /\ IF frames = <<>>
       THEN /\ outcome' = [NoCall EXCEPT !.op = "pop_frame", !.raised = "IndexError",
                             !.msg = "pop from empty list"]
            /\ UNCHANGED <<frames, frame>>
       ELSE /\ frames' = SubSeq(frames, 1, Len(frames) - 1)
            /\ frame' = IF frames' # <<>> THEN frames'[Len(frames')] ELSE 0
            /\ outcome' = [NoCall EXCEPT !.op = "pop_frame"]
    /\ UNCHANGED <<return_value, last_exception, heap, gens, cellobjs>>

\* ------------------------------------------------------------ Function call
\* Function.__call__ of an interpreted function without parameters: a new
\* frame whose f_back is the current frame; wrapped in a Generator if the code
\* has the CO_GENERATOR flag, else run by run_frame.
FunctionCall(isgen) ==
    LET f == Len(heap) + 1
        g == Len(gens) + 1
        r == RunFrameResult
    IN IF isgen
       THEN /\ Call
            /\ heap' = Append(heap, NewFrame(frame, g))
            /\ gens' = Append(gens, NewGenerator(f))
            /\ outcome' = [NoCall EXCEPT !.op = "call", !.value = GenV(g)]
            /\ UNCHANGED <<frames, frame, return_value, last_exception, cellobjs>>
       ELSE /\ Call
            /\ outcome' = [NoCall EXCEPT !.op = "call", !.why = r.why, !.exc = r.exc,
                             !.report = r.report, !.raised = r.raised, !.msg = r.msg,
                             !.value = r.value]
            /\ UNCHANGED <<frames, frame, return_value, last_exception, heap, gens, cellobjs>>

\* ------------------------------------------------ interpreted functions
\* The code of the interpreted functions called: def f(a, b, c=10) and the
\* generator function def g(a, b, c=10); def make() whose variable counter is a
\* cell variable, and def inc() nested in it, whose counter is a free variable;
\* def hold(a), whose parameter a is a cell variable.
\* defaults is func_defaults by parameter name.
FunctionNames == {"f", "g", "make", "inc", "hold"}

FunctionCode(name) ==
    [params |-> IF name \in {"f", "g"} THEN <<"a", "b", "c">>
                ELSE IF name = "hold" THEN <<"a">> ELSE <<>>,
     defaults |-> [p \in ParamNames |->
                     IF name \in {"f", "g"} /\ p = "c" THEN IntV(10) ELSE Unbound],
     co_cellvars |-> IF name = "make" THEN <<"counter">>
                     ELSE IF name = "hold" THEN <<"a">> ELSE <<>>,
     co_freevars |-> IF name = "inc" THEN <<"counter">> ELSE <<>>,
     generator |-> name = "g"]

Min(S) == CHOOSE x \in S : \A y \in S : x <= y

\* inspect.Signature.bind(*posargs, **kwargs) followed by ".arguments", as
\* Function.__call__ uses it: the arguments the call names, or TypeError.
\* apply_defaults is not called: a parameter the call omits is no key of the
\* result.
SigBind(code, posargs, kwargs) ==
    LET params == code.params
        n == Len(params)
        k == Len(posargs)
        Index(p) == CHOOSE i \in 1..n : params[i] = p
        IsParam(p) == \E i \in 1..n : params[i] = p
        twice == {i \in 1..n : i <= k /\ kwargs[params[i]] # Unbound}
        missing == {i \in 1..n : /\ i > k
                                  /\ kwargs[params[i]] = Unbound
                                  /\ code.defaults[params[i]] = Unbound}
        unexpected == {p \in ParamNames : ~IsParam(p) /\ kwargs[p] # Unbound}
        fail(m) == [raised |-> "TypeError", msg |-> m, arguments |-> NoLocals]
    IN IF twice # {} THEN fail("multiple values for argument")
       ELSE IF k > n THEN fail("too many positional arguments")
       ELSE IF missing # {} THEN fail("missing a required argument")
       ELSE IF unexpected # {} THEN fail("got an unexpected keyword argument")
       ELSE [raised |-> "", msg |-> "",
             arguments |-> [p \in ParamNames |->
                              IF IsParam(p) /\ Index(p) <= k THEN posargs[Index(p)]
                              ELSE IF IsParam(p) THEN kwargs[p]
                              ELSE Unbound]]

\* A Frame.__init__ that would make every new Cell empty.
FrameCells_EmptyCell(code, f_locals, back, back_cells, store) ==
    LET fail(cls, m) == [raised |-> cls, msg |-> m, cells |-> NoCells,
                         back_cells |-> back_cells, store |-> store]
        cvars == code.co_cellvars
        free == code.co_freevars
        has(names, v) == \E i \in 1..Len(names) : names[i] = v
        new(v) == IF has(cvars, v)
                  THEN Len(store) + (CHOOSE i \in 1..Len(cvars) : cvars[i] = v)
                  ELSE 0
        old(v) == IF back_cells.none THEN 0 ELSE back_cells[v]
        kept(v) == IF has(free, v) THEN back_cells[v] ELSE 0
    IN IF cvars # <<>>
       THEN IF back = 0
            THEN fail("AttributeError", "'NoneType' object has no attribute 'cells'")
            ELSE [raised |-> "", msg |-> "",
                  cells |-> [none |-> FALSE, counter |-> new("counter"), a |-> new("a")],
                  back_cells |->
                      [none |-> FALSE,
                       counter |-> IF has(cvars, "counter") THEN new("counter")
                                   ELSE old("counter"),
                       a |-> IF has(cvars, "a") THEN new("a") ELSE old("a")],
                  store |-> store \o [i \in 1..Len(cvars) |-> NoneV]]
       ELSE IF free # <<>>
       THEN IF back = 0
            THEN fail("AttributeError", "'NoneType' object has no attribute 'cells'")
            ELSE IF back_cells.none THEN fail("AssertionError", "f_back.cells")
            ELSE IF \E i \in 1..Len(free) : back_cells[free[i]] = 0
            THEN fail("KeyError", "counter")
            ELSE [raised |-> "", msg |-> "",
                  cells |-> [none |-> FALSE, counter |-> kept("counter"), a |-> kept("a")],
                  back_cells |-> back_cells, store |-> store]
       ELSE [raised |-> "", msg |-> "", cells |-> NoCells,
             back_cells |-> back_cells, store |-> store]

\* The cell part of Frame.__init__ for a frame whose f_back is back (0 for
\* None): for every cell variable a new Cell is stored in the new frame's
\* cells and in f_back.cells (made a dict if it was None); it holds
\* f_locals.get(var), None for a name that is not bound. For a free variable
\* the Cell is taken from f_back.cells. cells is the new frame's, back_cells
\* what f_back.cells becomes, store the Cell objects.
FrameCells(code, f_locals, back, back_cells, store) ==
    LET fail(cls, m) == [raised |-> cls, msg |-> m, cells |-> NoCells,
                         back_cells |-> back_cells, store |-> store]
        cvars == code.co_cellvars
        free == code.co_freevars
        has(names, v) == \E i \in 1..Len(names) : names[i] = v
        new(v) == IF has(cvars, v)
                  THEN Len(store) + (CHOOSE i \in 1..Len(cvars) : cvars[i] = v)
                  ELSE 0
        old(v) == IF back_cells.none THEN 0 ELSE back_cells[v]
        kept(v) == IF has(free, v) THEN back_cells[v] ELSE 0
        get(v) == IF v \in ParamNames /\ f_locals[v] # Unbound THEN f_locals[v]
                  ELSE NoneV
    IN IF cvars # <<>>
       THEN IF back = 0
            THEN fail("AttributeError", "'NoneType' object has no attribute 'cells'")
            ELSE [raised |-> "", msg |-> "",
                  cells |-> [none |-> FALSE, counter |-> new("counter"), a |-> new("a")],
                  back_cells |->
                      [none |-> FALSE,
                       counter |-> IF has(cvars, "counter") THEN new("counter")
                                   ELSE old("counter"),
                       a |-> IF has(cvars, "a") THEN new("a") ELSE old("a")],
                  store |-> store \o [i \in 1..Len(cvars) |-> get(cvars[i])]]
       ELSE IF free # <<>>
       THEN IF back = 0
            THEN fail("AttributeError", "'NoneType' object has no attribute 'cells'")
            ELSE IF back_cells.none THEN fail("AssertionError", "f_back.cells")
            ELSE IF \E i \in 1..Len(free) : back_cells[free[i]] = 0
            THEN fail("KeyError", "counter")
            ELSE [raised |-> "", msg |-> "",
                  cells |-> [none |-> FALSE, counter |-> kept("counter"), a |-> kept("a")],
                  back_cells |-> back_cells, store |-> store]
       ELSE [raised |-> "", msg |-> "", cells |-> NoCells,
             back_cells |-> back_cells, store |-> store]

\* Function.__call__(*posargs, **kwargs) made while cur is the current frame
\* (0 for None) and cur_cells its cells: the binding, make_frame and the Frame
\* it builds (f_back the current frame), then a Generator around the frame for
\* generator code, else run_frame. made tells that a Frame was built, frame is
\* that Frame, kept tells that the Generator keeps it alive.
Function_call(fn, posargs, kwargs, cur, cur_cells, store) ==
    LET code == FunctionCode(fn)
        b == SigBind(code, posargs, kwargs)
        fc == FrameCells(code, b.arguments, cur, cur_cells, store)
        run == RunFrameResult
        none == [raised |-> "", msg |-> "", value |-> NoneV, made |-> FALSE,
                 kept |-> FALSE, frame |-> NewFrame(cur, 0),
                 cur_cells |-> cur_cells, store |-> store]
        built == [none EXCEPT !.made = TRUE,
                    !.frame = [NewFrame(cur, 0) EXCEPT !.f_locals = b.arguments,
                                                       !.cells = fc.cells],
                    !.cur_cells = fc.back_cells, !.store = fc.store]
    IN IF b.raised # "" THEN [none EXCEPT !.raised = b.raised, !.msg = b.msg]
       ELSE IF fc.raised # "" THEN [none EXCEPT !.raised = fc.raised, !.msg = fc.msg]
       ELSE IF code.generator THEN [built EXCEPT !.kept = TRUE]
       ELSE [built EXCEPT !.raised = run.raised, !.msg = run.msg,
                          !.value = run.value]

\* The arguments of the calls made.
PosArgs == {<<>>, <<IntV(1)>>, <<IntV(1), IntV(2)>>, <<IntV(1), IntV(2), IntV(3)>>,
            <<IntV(1), IntV(2), IntV(3), IntV(1)>>}
KwArgs == {kw \in [ParamNames -> {Unbound, IntV(3)}] : kw["a"] = Unbound}

\* A call of the interpreted function fn by the host: from a handler of the
\* current frame, or from outside the engine.
CallFunction(fn, posargs, kwargs) ==
    /\ Call
    /\ fn \in FunctionNames
    /\ posargs \in PosArgs
    /\ kwargs \in KwArgs
    /\ LET r == Function_call(fn, posargs, kwargs, frame,
                              IF frame = 0 THEN NoCells ELSE heap[frame].cells,
                              cellobjs)
           f == Len(heap) + 1
           g == Len(gens) + 1
           cur == IF frame = 0 THEN heap
                  ELSE [heap EXCEPT ![frame].cells = r.cur_cells]
       IN /\ heap' = IF r.kept
                     THEN Append(cur, [r.frame EXCEPT !.generator = g])
                     ELSE cur
          /\ gens' = IF r.kept THEN Append(gens, NewGenerator(f)) ELSE gens
          /\ cellobjs' = r.store
          /\ outcome' = [NoCall EXCEPT !.op = "call", !.fn = fn, !.pos = posargs,
                           !.kw = kwargs, !.raised = r.raised, !.msg = r.msg,
                           !.value = IF r.kept THEN GenV(g) ELSE r.value,
                           !.made = r.made, !.locals = r.frame.f_locals,
                           !.stack = r.frame.stack, !.cells = r.frame.cells,
                           !.cur = frame]
    /\ UNCHANGED <<frames, frame, return_value, last_exception>>

\* ---------------------------------------------------------------- Generator
\* The values sent to a generator.
SendValues == {NoneV, IntV(1)}

\* Generator.send without its guard.
SendRejects_NoGuard(started, value) == FALSE

\* The guard of Generator.send: a non-None value sent to a generator that was
\* never started.
SendRejects(started, value) == ~started /\ value # NoneV

\* Generator.send(value), __next__ being send(None): the guard, the push on the
\* generator frame's stack, started, resume_frame (f_back set, run_frame,
\* f_back cleared when run_frame returns), then StopIteration if finished.
Send(g, value) ==
    /\ Call
    /\ g \in 1..Len(gens)
    /\ value \in SendValues
    /\ LET gen == gens[g]
           f == gen.gi_frame
           r == RunFrameResult
           rec == [NoCall EXCEPT !.op = "send", !.gen = g, !.arg = value,
                     !.started0 = gen.started, !.finished0 = gen.finished]
       IN IF SendRejects(gen.started, value)
          THEN /\ outcome' = [rec EXCEPT !.raised = "TypeError",
                                !.msg = "Can't send non-None value to a just-started generator"]
               /\ UNCHANGED <<heap, gens>>
          ELSE /\ gens' = [gens EXCEPT ![g].started = TRUE]
               /\ heap' = [heap EXCEPT ![f].stack = Append(@, value),
                                       ![f].f_back = IF r.raised # "" THEN frame ELSE 0]
               /\ outcome' =
                    IF r.raised # ""
                    THEN [rec EXCEPT !.why = r.why, !.exc = r.exc, !.report = r.report,
                            !.raised = r.raised, !.msg = r.msg]
                    ELSE IF gen.finished
                    THEN [rec EXCEPT !.why = r.why, !.raised = "StopIteration",
                            !.value = r.value]
                    ELSE [rec EXCEPT !.why = r.why, !.value = r.value]
    /\ UNCHANGED <<frames, frame, return_value, last_exception, cellobjs>>

\* ----------------------------------------------------------------- handlers
\* The state a handler works on: the current frame's operand stack, block
\* stack, f_lasti and cells (nofr: there is no current frame), return_value,
\* last_exception, the Cell objects (store); fin is set when the frame's
\* generator is marked finished; new holds the Frame a call built for a
\* Generator; started tells which Generators were started, sent holds the
\* Generator and the value of a send that the handler made and that was not
\* rejected; raised/msg is the host exception the handler raises, why the
\* reason it returns ("none" for None).
HandlerState ==
    [nofr |-> frame = 0,
     cur |-> frame,
     stack |-> IF frame = 0 THEN <<>> ELSE heap[frame].stack,
     block_stack |-> IF frame = 0 THEN <<>> ELSE heap[frame].block_stack,
     f_lasti |-> IF frame = 0 THEN IntV(0) ELSE heap[frame].f_lasti,
     cells |-> IF frame = 0 THEN NoCells ELSE heap[frame].cells,
     store |-> cellobjs,
     nheap |-> Len(heap), ngens |-> Len(gens), new |-> <<>>,
     started |-> [g \in 1..Len(gens) |-> gens[g].started], sent |-> <<>>,
     exited |-> <<>>,
     isgen |-> IF frame = 0 THEN FALSE ELSE heap[frame].generator # 0,
     rv |-> return_value, le |-> last_exception, fin |-> FALSE,
     raised |-> "", msg |-> "", why |-> "none"]

Raise(h, cls, m) == [h EXCEPT !.raised = cls, !.msg = m]

\* What "self.frame.stack" raises before a pop can happen, "" if the pop works.
PopFails(h) ==
    IF h.nofr THEN "AttributeError"
    ELSE IF h.stack = <<>> THEN "IndexError"
    ELSE ""

PopMsg(cls) ==
    IF cls = "AttributeError" THEN "'NoneType' object has no attribute 'stack'"
    ELSE "pop from empty list"

Top(h) == h.stack[Len(h.stack)]
\* VirtualMachine.pop with i = 0, on a stack that has an entry.
Popped(h) == [h EXCEPT !.stack = SubSeq(@, 1, Len(@) - 1)]

\* An unwind_block that would store the popped triple in the order it was
\* popped, (traceback, value, type).
unwind_block_TripleAsPopped(h, block) ==
    LET offset == IF block.type = "except-handler" THEN 3 ELSE 0
        depth == IF Len(h.stack) > block.level + offset
                 THEN block.level + offset ELSE Len(h.stack)
        cut == [h EXCEPT !.stack = SubSeq(@, 1, depth)]
    IN IF block.type = "except-handler"
       THEN IF depth < 3
            THEN Raise([cut EXCEPT !.stack = <<>>], "ValueError",
                       "not enough values to unpack")
            ELSE [cut EXCEPT !.stack = SubSeq(@, 1, depth - 3),
                             !.le = <<cut.stack[depth - 2], cut.stack[depth - 1],
                                      cut.stack[depth]>>]
       ELSE cut

\* VirtualMachine.unwind_block
unwind_block(h, block) ==
    LET offset == IF block.type = "except-handler" THEN 3 ELSE 0
        depth == IF Len(h.stack) > block.level + offset
                 THEN block.level + offset ELSE Len(h.stack)
        cut == [h EXCEPT !.stack = SubSeq(@, 1, depth)]
    IN IF block.type = "except-handler"
       THEN IF depth < 3
            THEN Raise([cut EXCEPT !.stack = <<>>], "ValueError",
                       "not enough values to unpack")
            ELSE [cut EXCEPT !.stack = SubSeq(@, 1, depth - 3),
                             !.le = <<cut.stack[depth], cut.stack[depth - 1],
                                      cut.stack[depth - 2]>>]
       ELSE cut

\* byte_LOAD_CONST
byte_LOAD_CONST(h, const) ==
    IF h.nofr THEN Raise(h, "AttributeError", PopMsg("AttributeError"))
    ELSE [h EXCEPT !.stack = Append(@, const)]

\* byte_POP_TOP
byte_POP_TOP(h) ==
    IF PopFails(h) # "" THEN Raise(h, PopFails(h), PopMsg(PopFails(h)))
    ELSE Popped(h)

\* byte_RETURN_VALUE
byte_RETURN_VALUE(h) ==
    IF PopFails(h) # "" THEN Raise(h, PopFails(h), PopMsg(PopFails(h)))
    ELSE [Popped(h) EXCEPT !.rv = Top(h), !.fin = h.isgen, !.why = "return"]

\* byte_YIELD_VALUE
byte_YIELD_VALUE(h) ==
    IF PopFails(h) # "" THEN Raise(h, PopFails(h), PopMsg(PopFails(h)))
    ELSE [Popped(h) EXCEPT !.rv = Top(h), !.why = "yield"]

\* byte_END_FINALLY, were the saved value popped and return_value left as it is.
byte_END_FINALLY_KeepsReturnValue(h) ==
    IF PopFails(h) # "" THEN Raise(h, PopFails(h), PopMsg(PopFails(h)))
    ELSE
    LET v == Top(h)
        h1 == Popped(h)
    IN IF IsStr(v)
       THEN IF v.s \in {"return", "continue"}
            THEN IF h1.stack = <<>> THEN Raise(h1, "IndexError", PopMsg("IndexError"))
                 ELSE [Popped(h1) EXCEPT !.why = v.s]
            ELSE IF v.s = "silenced"
            THEN IF h1.block_stack = <<>>
                 THEN Raise(h1, "IndexError", PopMsg("IndexError"))
                 ELSE LET block == h1.block_stack[Len(h1.block_stack)]
                          h2 == [h1 EXCEPT !.block_stack = SubSeq(@, 1, Len(@) - 1)]
                      IN IF block.type # "except-handler"
                         THEN Raise(h2, "AssertionError", "")
                         ELSE unwind_block(h2, block)
            ELSE [h1 EXCEPT !.why = v.s]
       ELSE IF IsNone(v) THEN h1
       ELSE IF ~IsClass(v)
       THEN Raise(h1, "TypeError", "issubclass() arg 1 must be a class")
       ELSE IF IsExcClass(v)
       THEN IF Len(h1.stack) < 2
            THEN Raise([h1 EXCEPT !.stack = <<>>], "IndexError", PopMsg("IndexError"))
            ELSE [h1 EXCEPT !.stack = SubSeq(@, 1, Len(@) - 2),
                            !.le = <<v, h1.stack[Len(h1.stack)],
                                     h1.stack[Len(h1.stack) - 1]>>,
                            !.why = "reraise"]
       ELSE Raise(h1, "VirtualMachineError", "Confused END_FINALLY")

\* byte_END_FINALLY
byte_END_FINALLY(h) ==
    IF PopFails(h) # "" THEN Raise(h, PopFails(h), PopMsg(PopFails(h)))
    ELSE
    LET v == Top(h)
        h1 == Popped(h)
    IN IF IsStr(v)
       THEN IF v.s \in {"return", "continue"}
            THEN IF h1.stack = <<>> THEN Raise(h1, "IndexError", PopMsg("IndexError"))
                 ELSE [Popped(h1) EXCEPT !.rv = Top(h1), !.why = v.s]
            ELSE IF v.s = "silenced"
            THEN IF h1.block_stack = <<>>
                 THEN Raise(h1, "IndexError", PopMsg("IndexError"))
                 ELSE LET block == h1.block_stack[Len(h1.block_stack)]
                          h2 == [h1 EXCEPT !.block_stack = SubSeq(@, 1, Len(@) - 1)]
                      IN IF block.type # "except-handler"
                         THEN Raise(h2, "AssertionError", "")
                         ELSE unwind_block(h2, block)
            ELSE [h1 EXCEPT !.why = v.s]
       ELSE IF IsNone(v) THEN h1
       ELSE IF ~IsClass(v)
       THEN Raise(h1, "TypeError", "issubclass() arg 1 must be a class")
       ELSE IF IsExcClass(v)
       THEN IF Len(h1.stack) < 2
            THEN Raise([h1 EXCEPT !.stack = <<>>], "IndexError", PopMsg("IndexError"))
            ELSE [h1 EXCEPT !.stack = SubSeq(@, 1, Len(@) - 2),
                            !.le = <<v, h1.stack[Len(h1.stack)],
                                     h1.stack[Len(h1.stack) - 1]>>,
                            !.why = "reraise"]
       ELSE Raise(h1, "VirtualMachineError", "Confused END_FINALLY")

\* Python truth of a value, as "if cause:" takes it.
Truthy(v) ==
    CASE IsNone(v) -> FALSE
      [] v.t = "int" -> v.n # 0
      [] v.t = "str" -> v.s # ""
      [] OTHER -> TRUE

\* VirtualMachine.do_raise
do_raise(h, exc, cause) ==
    IF IsNone(exc)
    THEN IF h.le = <<>>
         THEN Raise(h, "TypeError", "cannot unpack non-iterable NoneType object")
         ELSE IF IsNone(h.le[1]) THEN [h EXCEPT !.why = "exception"]
         ELSE [h EXCEPT !.why = "reraise"]
    ELSE IF ~(IsClass(exc) \/ IsExcInstance(exc)) THEN [h EXCEPT !.why = "exception"]
    ELSE
    LET exc_type == IF IsClass(exc) THEN exc ELSE ClassV(exc.t)
        \* exc() of a class that is no exception class models int(): the value 0
        val == IF ~IsClass(exc) THEN exc
               ELSE IF IsExcClass(exc) THEN ExcV(exc.s, "")
               ELSE IntV(0)
    IN IF Truthy(cause) /\ ~IsClass(cause) /\ ~IsExcInstance(cause)
       THEN [h EXCEPT !.why = "exception"]
       ELSE IF Truthy(cause) /\ ~IsExcInstance(val)
       THEN Raise(h, "AttributeError", "'int' object has no attribute '__cause__'")
       ELSE IF Truthy(cause) /\ IsClass(cause) /\ ~IsExcClass(cause)
       THEN Raise(h, "TypeError",
                  "exception cause must be None or derive from BaseException")
       ELSE IF ~IsExcInstance(val)
       THEN Raise(h, "AttributeError", "'int' object has no attribute '__traceback__'")
       ELSE [h EXCEPT !.le = <<exc_type, val, NoneV>>, !.why = "exception"]

\* byte_RAISE_VARARGS
byte_RAISE_VARARGS(h, argc) ==
    IF argc = 2
    THEN IF PopFails(h) # "" THEN Raise(h, PopFails(h), PopMsg(PopFails(h)))
         ELSE IF Len(h.stack) < 2
         THEN Raise(Popped(h), "IndexError", PopMsg("IndexError"))
         ELSE do_raise(Popped(Popped(h)), Top(Popped(h)), Top(h))
    ELSE IF argc = 1
    THEN IF PopFails(h) # "" THEN Raise(h, PopFails(h), PopMsg(PopFails(h)))
         ELSE do_raise(Popped(h), Top(h), NoneV)
    ELSE IF argc = 0
    THEN IF h.le = <<>>
         THEN Raise(h, "TypeError", "cannot unpack non-iterable NoneType object")
         ELSE IF IsNone(h.le[1]) THEN [h EXCEPT !.why = "exception"]
         ELSE [h EXCEPT !.why = "reraise"]
    ELSE Raise(h, "VirtualMachineError", "RAISE_VARARGS with invalid argc")

\* ------------------------------------------------------------------- blocks
\* VirtualMachine.jump
jump(h, target) == [h EXCEPT !.f_lasti = target]

\* VirtualMachine.push_block without a level: the level is the depth of the
\* operand stack.
push_block(h, type, handler) ==
    IF h.nofr THEN Raise(h, "AttributeError", PopMsg("AttributeError"))
    ELSE [h EXCEPT !.block_stack = Append(@, Block(type, handler, Len(h.stack)))]

\* What VirtualMachine.pop_block raises, "" if there is a block to pop.
PopBlockFails(h) ==
    IF h.nofr THEN "AttributeError"
    ELSE IF h.block_stack = <<>> THEN "IndexError"
    ELSE ""

PopBlockMsg(cls) ==
    IF cls = "AttributeError" THEN "'NoneType' object has no attribute 'block_stack'"
    ELSE "pop from empty list"

TopBlock(h) == h.block_stack[Len(h.block_stack)]
\* VirtualMachine.pop_block on a block stack that has a block.
BlockPopped(h) == [h EXCEPT !.block_stack = SubSeq(@, 1, Len(@) - 1)]

\* byte_SETUP_LOOP
byte_SETUP_LOOP(h, dest) == push_block(h, "loop", dest)

\* byte_SETUP_EXCEPT
byte_SETUP_EXCEPT(h, dest) == push_block(h, "setup-except", dest)

\* byte_SETUP_FINALLY
byte_SETUP_FINALLY(h, dest) == push_block(h, "finally", dest)

\* byte_POP_BLOCK
byte_POP_BLOCK(h) ==
    IF PopBlockFails(h) # "" THEN Raise(h, PopBlockFails(h), PopBlockMsg(PopBlockFails(h)))
    ELSE BlockPopped(h)

\* byte_POP_EXCEPT
byte_POP_EXCEPT(h) ==
    IF PopBlockFails(h) # "" THEN Raise(h, PopBlockFails(h), PopBlockMsg(PopBlockFails(h)))
    ELSE IF TopBlock(h).type # "except-handler"
    THEN Raise(BlockPopped(h), "Exception", "popped block is not an except handler")
    ELSE unwind_block(BlockPopped(h), TopBlock(h))

\* byte_BREAK_LOOP
byte_BREAK_LOOP(h) == [h EXCEPT !.why = "break"]

\* byte_CONTINUE_LOOP
byte_CONTINUE_LOOP(h, dest) == [h EXCEPT !.rv = dest, !.why = "continue"]

\* The reasons handed to manage_block_stack.
Reasons == {"exception", "return", "continue", "break", "yield"}

\* manage_block_stack, a loop block reached by "continue".
ContinueLoop_PopsBlock(h) == [jump(BlockPopped(h), h.rv) EXCEPT !.why = "none"]

\* manage_block_stack, a loop block reached by "continue": the jump to
\* return_value; the block is not popped.
ContinueLoop(h) == [jump(h, h.rv) EXCEPT !.why = "none"]

\* manage_block_stack, a loop block reached by "break", after the block was
\* popped and unwound: the jump to the block's handler.
BreakLoop(u, block) == [jump(u, block.handler) EXCEPT !.why = "none"]

\* manage_block_stack, a setup-except or finally block reached by
\* "exception", after the block was popped and unwound: the except-handler
\* block, the push of (tb, value, exctype) and the jump.
ExceptionHandler(u, block) ==
    LET b == push_block(u, "except-handler", NoneV)
    IN IF b.le = <<>>
       THEN Raise(b, "TypeError", "cannot unpack non-iterable NoneType object")
       ELSE [jump(b, block.handler) EXCEPT
               !.stack = b.stack \o <<b.le[3], b.le[2], b.le[1]>>,
               !.why = "none"]

\* manage_block_stack, a finally block, without the push of return_value.
FinallyHandler_TokenOnly(u, block, why) ==
    [jump(u, block.handler) EXCEPT !.stack = Append(u.stack, StrV(why)),
                                   !.why = "none"]

\* manage_block_stack, a finally block reached by a reason other than
\* "exception", after the block was popped and unwound: return_value pushed
\* for "return" and "continue", then the reason, and the jump.
FinallyHandler(u, block, why) ==
    [jump(u, block.handler) EXCEPT
       !.stack = IF why \in {"return", "continue"}
                 THEN u.stack \o <<u.rv, StrV(why)>>
                 ELSE Append(u.stack, StrV(why)),
       !.why = "none"]

\* manage_block_stack, any other block and reason, with the reason dropped.
Unhandled_ReasonDropped(u, why) == [u EXCEPT !.why = "none"]

\* manage_block_stack, any other block and reason, after the block was popped
\* and unwound: the reason is returned.
Unhandled(u, why) == [u EXCEPT !.why = why]

\* VirtualMachine.manage_block_stack(why): h.why is the reason it returns,
\* "none" for None.
manage_block_stack(h, why) ==
    IF why = "yield" THEN Raise(h, "AssertionError", "")
    ELSE IF h.nofr
    THEN Raise(h, "AttributeError", PopBlockMsg("AttributeError"))
    ELSE IF h.block_stack = <<>>
    THEN Raise(h, "IndexError", "list index out of range")
    ELSE
    LET block == TopBlock(h)
        u == unwind_block(BlockPopped(h), block)
    IN IF block.type = "loop" /\ why = "continue" THEN ContinueLoop(h)
       ELSE IF u.raised # "" THEN u
       ELSE IF block.type = "loop" /\ why = "break" THEN BreakLoop(u, block)
       ELSE IF why = "exception" /\ block.type \in {"setup-except", "finally"}
       THEN ExceptionHandler(u, block)
       ELSE IF block.type = "finally" THEN FinallyHandler(u, block, why)
       ELSE Unhandled(u, why)

\* VirtualMachine.manage_block_stack called on the current frame with a reason.
ManageBlockStack(why) ==
    /\ Call
    /\ why \in Reasons
    /\ LET h0 == HandlerState
           h == manage_block_stack(h0, why)
       IN /\ heap' = IF frame = 0 THEN heap
                     ELSE [heap EXCEPT ![frame].stack = h.stack,
                                       ![frame].block_stack = h.block_stack,
                                       ![frame].f_lasti = h.f_lasti]
          /\ last_exception' = h.le
          /\ outcome' = [NoCall EXCEPT !.op = "manage_block_stack", !.why0 = why,
                           !.block = IF h0.block_stack = <<>> THEN NoBlock
                                     ELSE TopBlock(h0),
                           !.stack0 = h0.stack, !.le0 = h0.le, !.cur = frame,
                           !.why = h.why, !.raised = h.raised, !.msg = h.msg]
    /\ UNCHANGED <<frames, frame, return_value, gens, cellobjs>>

\* -------------------------------------------------------------------- cells
\* What "self.frame.cells[name]" raises, "" if it finds the Cell.
CellFails(h) ==
    IF h.nofr THEN "AttributeError"
    ELSE IF h.cells.none THEN "TypeError"
    ELSE IF h.cells.counter = 0 THEN "KeyError"
    ELSE ""

CellMsg(cls) ==
    CASE cls = "AttributeError" -> "'NoneType' object has no attribute 'cells'"
      [] cls = "TypeError" -> "'NoneType' object is not subscriptable"
      [] OTHER -> "counter"

\* byte_LOAD_DEREF
byte_LOAD_DEREF(h) ==
    IF CellFails(h) # "" THEN Raise(h, CellFails(h), CellMsg(CellFails(h)))
    ELSE [h EXCEPT !.stack = Append(@, h.store[h.cells.counter])]

\* byte_STORE_DEREF
byte_STORE_DEREF(h) ==
    IF CellFails(h) # "" THEN Raise(h, CellFails(h), CellMsg(CellFails(h)))
    ELSE IF h.stack = <<>> THEN Raise(h, "IndexError", PopMsg("IndexError"))
    ELSE [Popped(h) EXCEPT !.store[h.cells.counter] = Top(h)]

\* -------------------------------------------------------------------- calls
\* The operand of CALL_FUNCTION packs two counts.
ArgBase == 256

\* VirtualMachine.popn(n): the last n entries are taken off, fewer if the
\* stack is shorter; popn(0) does not look at the frame.
PopnFails(h, n) == IF n # 0 /\ h.nofr THEN "AttributeError" ELSE ""

\* A popn that would return the entries top first.
Lastn_TopFirst(h, n) ==
    LET k == IF n >= Len(h.stack) THEN Len(h.stack) ELSE n
    IN [i \in 1..k |-> h.stack[Len(h.stack) - i + 1]]

Lastn(h, n) ==
    IF n >= Len(h.stack) THEN h.stack
    ELSE SubSeq(h.stack, Len(h.stack) - n + 1, Len(h.stack))
Poppedn(h, n) ==
    [h EXCEPT !.stack = IF n >= Len(@) THEN <<>> ELSE SubSeq(@, 1, Len(@) - n)]

\* A call of popn(n) by the host: "if n:" takes the last n entries off the
\* stack of the current frame and returns them, "else" returns an empty list.
Popn(n) ==
    /\ Call
    /\ heap' = IF n # 0 /\ PopnFails(HandlerState, n) = ""
               THEN [heap EXCEPT ![frame].stack = Poppedn(HandlerState, n).stack]
               ELSE heap
    /\ outcome' = [NoCall EXCEPT !.op = "popn", !.arg = IntV(n),
                     !.stack0 = HandlerState.stack, !.cur = frame,
                     !.raised = PopnFails(HandlerState, n),
                     !.msg = IF PopnFails(HandlerState, n) = "" THEN ""
                             ELSE PopMsg(PopnFails(HandlerState, n)),
                     !.ret = IF n # 0 /\ PopnFails(HandlerState, n) = ""
                             THEN Lastn(HandlerState, n) ELSE <<>>]
    /\ UNCHANGED <<frames, frame, return_value, last_exception, gens, cellobjs>>

\* "func(*posargs, **namedargs)" and the push of its result, for func an
\* interpreted Function, sys.exit (which raises SystemExit when called with at
\* most one argument) or a value that is not callable; namedargs holds the
\* pair key: val if haskw. h is the state after the pops.
CallValue(h, func, posargs, haskw, key, val) ==
    IF haskw /\ ~IsStr(key)
    THEN Raise(h, "TypeError", "keywords must be strings")
    ELSE IF func = BuiltinV("exit")
    THEN IF haskw \/ Len(posargs) > 1 THEN Raise(h, "TypeError", "exit() arguments")
         ELSE Raise(h, "SystemExit", "")
    ELSE IF func.t # "function"
    THEN Raise(h, "TypeError", "object is not callable")
    ELSE
    LET named == haskw /\ key.s \in ParamNames
        kwargs == IF named THEN [NoKwargs EXCEPT ![key.s] = val] ELSE NoKwargs
        r == Function_call(func.s, posargs, kwargs, h.cur, h.cells, h.store)
        h1 == [h EXCEPT !.cells = r.cur_cells, !.store = r.store]
        g == h.ngens + 1
    IN IF haskw /\ ~named /\ SigBind(FunctionCode(func.s), posargs, kwargs).raised = ""
       THEN Raise(h, "TypeError", "got an unexpected keyword argument")
       ELSE IF r.raised # "" THEN Raise(h1, r.raised, r.msg)
       ELSE IF r.kept
       THEN [h1 EXCEPT !.new = <<[r.frame EXCEPT !.generator = g]>>,
                       !.stack = Append(@, GenV(g))]
       ELSE [h1 EXCEPT !.stack = Append(@, r.value)]

\* The Methods of the host heap, each Method(im_self, int, g): g bound to 1,
\* g bound to 0, and g unbound.
Methods ==
    <<[im_self |-> IntV(1), im_class |-> "int", im_func |-> "g"],
      [im_self |-> IntV(0), im_class |-> "int", im_func |-> "g"],
      [im_self |-> NoneV, im_class |-> "int", im_func |-> "g"]>>

\* call_function from "if hasattr(func, 'im_func')" on: a Method has its
\* im_self inserted "if func.im_self", then posargs[0] is tested against
\* im_class; the message of the TypeError reads func.__name__, which a Method
\* does not have. Then the call of CallValue.
CallMethod(h, func, posargs, haskw, key, val) ==
    IF func.t # "Method" THEN CallValue(h, func, posargs, haskw, key, val)
    ELSE
    LET m == Methods[func.n]
        args == IF Truthy(m.im_self) THEN <<m.im_self>> \o posargs ELSE posargs
    IN IF args = <<>> THEN Raise(h, "IndexError", "list index out of range")
       ELSE IF ~(m.im_class = "int" /\ args[1].t \in {"int", "bool"})
       THEN Raise(h, "AttributeError", "'Method' object has no attribute '__name__'")
       ELSE CallValue(h, FuncV(m.im_func), args, haskw, key, val)

\* A call_function that would take the keyword count from the low byte.
call_function_LowByteKeywords(h, arg) ==
    LET lenKw == arg % ArgBase
        lenPos == arg \div ArgBase
        haskw == lenKw > 0
        pair == Lastn(h, 2)
        h1 == IF haskw THEN Poppedn(h, 2) ELSE h
        posargs == Lastn(h1, lenPos)
        h2 == Poppedn(h1, lenPos)
    IN IF haskw /\ h.nofr THEN Raise(h, "AttributeError", PopMsg("AttributeError"))
       ELSE IF haskw /\ Len(pair) < 2
       THEN Raise(h1, "ValueError", "not enough values to unpack")
       ELSE IF PopnFails(h1, lenPos) # ""
       THEN Raise(h1, "AttributeError", PopMsg("AttributeError"))
       ELSE IF PopFails(h2) # "" THEN Raise(h2, PopFails(h2), PopMsg(PopFails(h2)))
       ELSE CallMethod(Popped(h2), Top(h2), posargs, haskw,
                      IF haskw THEN pair[1] ELSE NoneV,
                      IF haskw THEN pair[2] ELSE NoneV)

\* VirtualMachine.call_function(arg, [], {}) for an operand with at most one
\* keyword argument: the pairs of keyword arguments are popped, then the
\* positional arguments, then the callable; it is called and its result pushed.
call_function(h, arg) ==
    LET lenKw == arg \div ArgBase
        lenPos == arg % ArgBase
        haskw == lenKw > 0
        pair == Lastn(h, 2)
        h1 == IF haskw THEN Poppedn(h, 2) ELSE h
        posargs == Lastn(h1, lenPos)
        h2 == Poppedn(h1, lenPos)
    IN IF haskw /\ h.nofr THEN Raise(h, "AttributeError", PopMsg("AttributeError"))
       ELSE IF haskw /\ Len(pair) < 2
       THEN Raise(h1, "ValueError", "not enough values to unpack")
       ELSE IF PopnFails(h1, lenPos) # ""
       THEN Raise(h1, "AttributeError", PopMsg("AttributeError"))
       ELSE IF PopFails(h2) # "" THEN Raise(h2, PopFails(h2), PopMsg(PopFails(h2)))
       ELSE CallMethod(Popped(h2), Top(h2), posargs, haskw,
                      IF haskw THEN pair[1] ELSE NoneV,
                      IF haskw THEN pair[2] ELSE NoneV)

\* byte_CALL_FUNCTION
byte_CALL_FUNCTION(h, arg) == call_function(h, arg)

\* ---------------------------------------------------------------- iterators
\* What "self.top()" raises, "" if the stack has an entry.
TopFails(h) ==
    IF h.nofr THEN "AttributeError"
    ELSE IF h.stack = <<>> THEN "IndexError"
    ELSE ""

TopMsg(cls) ==
    IF cls = "AttributeError" THEN "'NoneType' object has no attribute 'stack'"
    ELSE "list index out of range"

\* next(x), or x.send(u) with issend, for the entry x on top of the stack of
\* h. A host iterator gives its next item and moves on, or raises
\* StopIteration (value None); a Generator goes through Generator.send, whose
\* resume_frame ends in run_frame; anything else is no iterator. item is the
\* value produced.
Advance(h, u, issend) ==
    LET x == Top(h)
        r == RunFrameResult
    IN IF x.t = "list_iterator"
       THEN IF x.n > 0
            THEN [st |-> [h EXCEPT !.stack[Len(h.stack)] = IterV(x.n - 1)],
                  item |-> IntV(x.n)]
            ELSE [st |-> Raise(h, "StopIteration", ""), item |-> NoneV]
       ELSE IF x.t = "Generator"
       THEN IF issend /\ SendRejects(h.started[x.n], u)
            THEN [st |-> Raise(h, "TypeError",
                               "Can't send non-None value to a just-started generator"),
                  item |-> NoneV]
            ELSE [st |-> Raise([h EXCEPT !.sent = <<[gen |-> x.n,
                                                    value |-> IF issend THEN u ELSE NoneV]>>],
                               r.raised, r.msg),
                  item |-> r.value]
       ELSE [st |-> Raise(h, "TypeError", "object is not an iterator"), item |-> NoneV]

\* A byte_FOR_ITER that would leave the exhausted iterator on the stack.
byte_FOR_ITER_KeepsIterator(h, target) ==
    IF TopFails(h) # "" THEN Raise(h, TopFails(h), TopMsg(TopFails(h)))
    ELSE
    LET a == Advance(h, NoneV, FALSE)
    IN IF a.st.raised = "" THEN [a.st EXCEPT !.stack = Append(@, a.item)]
       ELSE IF a.st.raised = "StopIteration"
       THEN jump(h, target)
       ELSE a.st

\* byte_FOR_ITER
byte_FOR_ITER(h, target) ==
    IF TopFails(h) # "" THEN Raise(h, TopFails(h), TopMsg(TopFails(h)))
    ELSE
    LET a == Advance(h, NoneV, FALSE)
    IN IF a.st.raised = "" THEN [a.st EXCEPT !.stack = Append(@, a.item)]
       ELSE IF a.st.raised = "StopIteration"
       THEN jump(Popped(h), target)
       ELSE a.st

\* "self.frame.f_lasti - 1" of byte_YIELD_FROM: the offset before f_lasti, or
\* TypeError if f_lasti holds no number.
Rewound(h) ==
    IF h.f_lasti.t = "int" THEN jump(h, IntV(h.f_lasti.n - 1))
    ELSE Raise(h, "TypeError", "unsupported operand type(s) for -")

\* byte_YIELD_FROM
byte_YIELD_FROM(h) ==
    IF PopFails(h) # "" THEN Raise(h, PopFails(h), PopMsg(PopFails(h)))
    ELSE
    LET u == Top(h)
        h1 == Popped(h)
    IN IF TopFails(h1) # "" THEN Raise(h1, TopFails(h1), TopMsg(TopFails(h1)))
       ELSE
       LET x == Top(h1)
           a == Advance(h1, u, x.t = "Generator" /\ ~IsNone(u))
       IN IF a.st.raised = ""
          THEN LET y == Rewound([a.st EXCEPT !.rv = a.item])
               IN IF y.raised # "" THEN y ELSE [y EXCEPT !.why = "yield"]
          ELSE IF a.st.raised = "StopIteration"
          THEN [Popped(h1) EXCEPT !.stack = Append(@, a.item)]
          ELSE a.st

\* ---------------------------------------------------------------- operators
\* The keys of BINARY_OPERATORS that the model applies; on ints they are
\* operator.add, operator.sub, operator.mul and operator.floordiv.
BinaryOperatorNames == {"ADD", "SUBTRACT", "MULTIPLY", "FLOOR_DIVIDE"}

\* BINARY_OPERATORS[op](x, y) for x and y ints or None: the value, or the
\* exception the host operator raises.
BinaryResult(op, x, y) ==
    IF op \notin BinaryOperatorNames
    THEN [raised |-> "KeyError", msg |-> op, value |-> NoneV]
    ELSE IF x.t # "int" \/ y.t # "int"
    THEN [raised |-> "TypeError", msg |-> "unsupported operand type(s)", value |-> NoneV]
    ELSE IF op = "FLOOR_DIVIDE" /\ y.n = 0
    THEN [raised |-> "ZeroDivisionError", msg |-> "integer division or modulo by zero",
          value |-> NoneV]
    ELSE [raised |-> "", msg |-> "",
          value |-> IntV(CASE op = "ADD" -> x.n + y.n
                           [] op = "SUBTRACT" -> x.n - y.n
                           [] op = "MULTIPLY" -> x.n * y.n
                           [] op = "FLOOR_DIVIDE" -> x.n \div y.n)]

\* "y, x = self.popn(2)": what the unpacking raises, "" if it works.
UnpackFails(h) ==
    IF PopnFails(h, 2) # "" THEN PopnFails(h, 2)
    ELSE IF Len(h.stack) < 2 THEN "ValueError"
    ELSE ""

UnpackMsg(cls) ==
    IF cls = "AttributeError" THEN "'NoneType' object has no attribute 'stack'"
    ELSE "not enough values to unpack"

\* VirtualMachine.binaryOperator: "y, x = self.popn(2)" names the lower of the
\* two entries y and the top one x, and the result pushed is OP(x, y).
binaryOperator(h, op) ==
    IF UnpackFails(h) = "AttributeError" THEN Raise(h, "AttributeError", UnpackMsg("AttributeError"))
    ELSE IF UnpackFails(h) # "" THEN Raise(Poppedn(h, 2), UnpackFails(h), UnpackMsg(UnpackFails(h)))
    ELSE IF BinaryResult(op, Lastn(h, 2)[2], Lastn(h, 2)[1]).raised # ""
    THEN Raise(Poppedn(h, 2), BinaryResult(op, Lastn(h, 2)[2], Lastn(h, 2)[1]).raised,
               BinaryResult(op, Lastn(h, 2)[2], Lastn(h, 2)[1]).msg)
    ELSE [Poppedn(h, 2) EXCEPT
            !.stack = Append(@, BinaryResult(op, Lastn(h, 2)[2], Lastn(h, 2)[1]).value)]

\* VirtualMachine.inplaceOperator: the same lookup and the same unpacking.
inplaceOperator(h, op) == binaryOperator(h, op)

\* COMPARE_OPERATORS[i](x, y) for x and y None, ints, bools, tuples (1, .., k)
\* and classes: the truth value, or the exception the host predicate raises.
\* Equal entries of the stack are one object, as constants of a code object are.
CompareResult(i, x, y) ==
    LET num(v) == v.t \in {"int", "bool"}
        ordered == (num(x) /\ num(y)) \/ (x.t = "tuple" /\ y.t = "tuple")
        eq == IF num(x) /\ num(y) THEN x.n = y.n ELSE x = y
        isin == num(x) /\ 1 <= x.n /\ x.n <= y.n
        inst == IF y.s = "int" THEN num(x) ELSE x.t = y.s
        ok(b) == [raised |-> "", value |-> BoolV(b)]
        fails(cls) == [raised |-> cls, value |-> NoneV]
    IN CASE i \notin 0..11 -> fails("IndexError")
         [] i \in {0, 1, 4, 5} /\ ~ordered -> fails("TypeError")
         [] i = 0 /\ ordered -> ok(x.n < y.n)
         [] i = 1 /\ ordered -> ok(x.n <= y.n)
         [] i = 2 -> ok(eq)
         [] i = 3 -> ok(~eq)
         [] i = 4 /\ ordered -> ok(x.n > y.n)
         [] i = 5 /\ ordered -> ok(x.n >= y.n)
         [] i \in {6, 7} /\ y.t # "tuple" -> fails("TypeError")
         [] i = 6 /\ y.t = "tuple" -> ok(isin)
         [] i = 7 /\ y.t = "tuple" -> ok(~isin)
         [] i = 8 -> ok(x = y)
         [] i = 9 -> ok(x # y)
         [] i \in {10, 11} /\ y.t = "tuple" /\ y.n = 0 -> ok(i = 11)
         [] i \in {10, 11} /\ y.t # "type" /\ ~(y.t = "tuple" /\ y.n = 0) -> fails("TypeError")
         [] i = 10 /\ y.t = "type" -> ok(inst)
         [] i = 11 /\ y.t = "type" -> ok(~inst)

\* byte_COMPARE_OP: "y, x = self.popn(2)" as in binaryOperator, then the push
\* of COMPARE_OPERATORS[opnum](x, y).
byte_COMPARE_OP(h, opnum) ==
    IF UnpackFails(h) = "AttributeError" THEN Raise(h, "AttributeError", UnpackMsg("AttributeError"))
    ELSE IF UnpackFails(h) # "" THEN Raise(Poppedn(h, 2), UnpackFails(h), UnpackMsg(UnpackFails(h)))
    ELSE IF CompareResult(opnum, Lastn(h, 2)[2], Lastn(h, 2)[1]).raised # ""
    THEN Raise(Poppedn(h, 2), CompareResult(opnum, Lastn(h, 2)[2], Lastn(h, 2)[1]).raised, "")
    ELSE [Poppedn(h, 2) EXCEPT
            !.stack = Append(@, CompareResult(opnum, Lastn(h, 2)[2], Lastn(h, 2)[1]).value)]

\* ----------------------------------------------------------------- decoding
\* dis.HAVE_ARGUMENT
HAVE_ARGUMENT == 90

\* dis.opname for the opcodes of the model.
OpName(byte_code) ==
    CASE byte_code = 0 -> "CACHE"
      [] byte_code = 1 -> "POP_TOP"
      [] byte_code = 100 -> "LOAD_CONST"
      [] OTHER -> "<unknown>"

\* parse_byte_and_args(frame, opoffset), co_code being frame.f_code.co_code, a
\* bytes object whose entries are ints: "co_code[opoffset]" is an int, and an
\* int has no attribute "opcode". The lines after it are those an entry with
\* that attribute would reach: the operand is read from the two entries that
\* follow and the offset moves on by 2, or by 1 without an operand.
parse_byte_and_args(co_code, opoffset) ==
    LET fails(cls, m) == [raised |-> cls, msg |-> m, name |-> "", argument |-> NoneV,
                          opoffset |-> opoffset]
        byte_code == co_code[opoffset + 1].n
        arg_bytes == SubSeq(co_code, opoffset + 2,
                            IF opoffset + 3 <= Len(co_code) THEN opoffset + 3
                            ELSE Len(co_code))
    IN IF opoffset >= Len(co_code) THEN fails("IndexError", "index out of range")
       ELSE IF co_code[opoffset + 1].t = "int"
       THEN fails("AttributeError", "'int' object has no attribute 'opcode'")
       ELSE IF byte_code >= HAVE_ARGUMENT
       THEN IF Len(arg_bytes) < 2 THEN fails("IndexError", "index out of range")
            ELSE [raised |-> "", msg |-> "", name |-> OpName(byte_code),
                  argument |-> IntV(arg_bytes[1].n + arg_bytes[2].n * 256),
                  opoffset |-> opoffset + 2]
       ELSE [raised |-> "", msg |-> "", name |-> OpName(byte_code),
             argument |-> NoneV, opoffset |-> opoffset + 1]

\* A call of parse_byte_and_args by the host: through the class, with a frame
\* and an offset, or through the engine (viavm), which hands the engine over
\* as the frame and so passes one argument too many.
ParseByteAndArgs(co_code, opoffset, viavm) ==
    /\ Call
    /\ outcome' =
         IF viavm
         THEN [NoCall EXCEPT !.op = "parse_byte_and_args", !.code = co_code,
                 !.offset = opoffset, !.raised = "TypeError",
                 !.msg = "takes 2 positional arguments but 3 were given"]
         ELSE [NoCall EXCEPT !.op = "parse_byte_and_args", !.code = co_code,
                 !.offset = opoffset,
                 !.raised = parse_byte_and_args(co_code, opoffset).raised,
                 !.msg = parse_byte_and_args(co_code, opoffset).msg,
                 !.ins = parse_byte_and_args(co_code, opoffset).name,
                 !.arg = parse_byte_and_args(co_code, opoffset).argument,
                 !.next = parse_byte_and_args(co_code, opoffset).opoffset]
    /\ UNCHANGED <<frames, frame, return_value, last_exception, heap, gens, cellobjs>>

\* ----------------------------------------------------------------- dispatch
\* An instruction handed to dispatch: a name and its decoded argument.
Ins(name, arg) == [name |-> name, arg |-> arg]

\* The instructions of raising, returning and yielding.
\* NOP is an instruction name for which the engine has no byte_ method.
BasicInstructions ==
    {Ins("LOAD_CONST", c) : c \in Consts}
    \cup {Ins("RAISE_VARARGS", IntV(k)) : k \in 0..3}
    \cup {Ins(n, NoneV) :
            n \in {"RESUME", "POP_TOP", "RETURN_VALUE", "YIELD_VALUE",
                   "END_FINALLY", "NOP"}}

\* The instructions of control blocks: a try block entered at depth 1 whose
\* raise is RAISE_VARARGS 1, loops and finally blocks, their handlers at the
\* targets 4 and 8.
BlockInstructions ==
    {Ins("LOAD_CONST", c) : c \in {IntV(1), ClassV("ValueError")}}
    \cup {Ins(n, IntV(4)) : n \in {"SETUP_LOOP", "SETUP_EXCEPT", "SETUP_FINALLY"}}
    \cup {Ins("CONTINUE_LOOP", IntV(8)), Ins("RAISE_VARARGS", IntV(1))}
    \cup {Ins(n, NoneV) : n \in {"POP_TOP", "POP_BLOCK", "POP_EXCEPT", "BREAK_LOOP",
                                  "END_FINALLY"}}

\* The instructions of calls and of cells: the callables and arguments pushed,
\* CALL_FUNCTION with 0 and 2 positional arguments and with 2 positional
\* arguments and 1 keyword argument.
CallInstructions ==
    {Ins("LOAD_CONST", c) : c \in {IntV(1), FuncV("f"), FuncV("g")}}
    \cup {Ins("CALL_FUNCTION", IntV(k)) : k \in {0, 2, ArgBase + 2}}
    \cup {Ins(n, StrV("counter")) : n \in {"LOAD_DEREF", "STORE_DEREF"}}
    \cup {Ins("POP_TOP", NoneV)}

\* The operands of CALL_FUNCTION on drawn stacks: up to two positional
\* arguments, and one positional with one keyword argument.
CallOperands == {0, 1, 2, ArgBase + 1}

\* The instructions of iteration: FOR_ITER with the loop end at 8, YIELD_FROM.
IterInstructions == {Ins("FOR_ITER", IntV(8)), Ins("YIELD_FROM", NoneV)}

\* The instructions of binary and in-place operators; BINARY_OP is a name
\* whose operator BINARY_OPERATORS does not hold.
OperatorInstructions ==
    {Ins("BINARY_" \o op, NoneV) : op \in BinaryOperatorNames \cup {"OP"}}
    \cup {Ins("INPLACE_" \o op, NoneV) : op \in BinaryOperatorNames}

\* COMPARE_OP with each index of the table and the first index past it.
CompareInstructions == {Ins("COMPARE_OP", IntV(i)) : i \in 0..12}

Instructions ==
    BasicInstructions \cup BlockInstructions \cup CallInstructions
    \cup IterInstructions \cup OperatorInstructions \cup CompareInstructions
    \cup {Ins("CALL_FUNCTION", IntV(k)) : k \in CallOperands}
    \cup {Ins("SETUP_WITH", IntV(4)), Ins("WITH_CLEANUP", NoneV)}

\* --------------------------------------------------------------------- with
\* byte_SETUP_WITH: the context manager is popped, its bound __exit__ and the
\* result of __enter__() are pushed, and a finally block is pushed at the level
\* of the stack that holds both.
byte_SETUP_WITH(h, dest) ==
    IF PopFails(h) # "" THEN Raise(h, PopFails(h), PopMsg(PopFails(h)))
    ELSE IF Top(h).t # "CM" \/ Top(h).s # ""
    THEN Raise(Popped(h), "AttributeError", "__exit__")
    ELSE push_block([Popped(h) EXCEPT
                       !.stack = @ \o <<[Top(h) EXCEPT !.s = "__exit__"], StrV("entered")>>],
                    "finally", dest)

\* byte_WITH_CLEANUP. Exit is "exit_ret = exit_func(u, v, w)" and the push of
\* 'silenced' that follows, for exit_func the __exit__ of a context manager
\* (the call is recorded in exited), an exception class (the call builds an
\* instance, which is true) or a value that is not callable. Without(i) is
\* the stack after self.pop(i). With an exception class on top the handler
\* takes six entries with two popn(3) and exit_func with a pop below them.
byte_WITH_CLEANUP(h) ==
    IF h.nofr THEN Raise(h, "AttributeError", PopMsg("AttributeError"))
    ELSE IF h.stack = <<>> THEN Raise(h, "IndexError", "list index out of range")
    ELSE
    LET n == Len(h.stack)
        Exit(g, f, u, v, w) ==
            IF f.t = "CM" /\ f.s = "__exit__"
            THEN [g EXCEPT !.exited = <<[cm |-> f.n, args |-> <<u, v, w>>]>>,
                           !.stack = IF ~IsNone(u) /\ f.n # 0
                                     THEN Append(@, StrV("silenced")) ELSE @]
            ELSE IF IsExcClass(f)
            THEN [g EXCEPT !.stack = IF ~IsNone(u) THEN Append(@, StrV("silenced"))
                                     ELSE @]
            ELSE Raise(g, "TypeError", "object is not callable")
        Without(i) ==
            [h EXCEPT !.stack = SubSeq(@, 1, n - i - 1) \o SubSeq(@, n - i + 1, n)]
    IN IF IsNone(Top(h)) \/ IsStr(Top(h))
       THEN LET i == IF Top(h).s \in {"return", "continue"} THEN 2 ELSE 1
            IN IF n < i + 1 THEN Raise(h, "IndexError", "pop index out of range")
               ELSE Exit(Without(i), h.stack[n - i], NoneV, NoneV, NoneV)
       ELSE IF ~IsClass(Top(h))
       THEN Raise(h, "TypeError", "issubclass() arg 1 must be a class")
       ELSE IF ~IsExcClass(Top(h))
       THEN Raise(h, "VirtualMachineError", "Confused WITH_CLEANUP")
       ELSE IF n < 6
       THEN Raise([h EXCEPT !.stack = <<>>], "ValueError", UnpackMsg("ValueError"))
       ELSE IF n < 7
       THEN Raise([h EXCEPT !.stack = <<>>], "IndexError", PopMsg("IndexError"))
       ELSE
       LET pushed == [h EXCEPT !.stack = SubSeq(@, 1, n - 7) \o SubSeq(@, n - 5, n - 3)
                                         \o <<NoneV>> \o SubSeq(@, n - 2, n)]
       IN IF h.block_stack = <<>>
          THEN Raise(pushed, "IndexError", PopBlockMsg("IndexError"))
          ELSE IF TopBlock(h).type # "except-handler"
          THEN Raise(BlockPopped(pushed), "AssertionError", "")
          ELSE Exit([pushed EXCEPT !.block_stack[Len(h.block_stack)].level = @ - 1],
                    h.stack[n - 6], h.stack[n], h.stack[n - 1], h.stack[n - 2])

\* The names for which getattr(self, "byte_" + name) finds a method.
HandlerNames ==
    {"LOAD_CONST", "POP_TOP", "RETURN_VALUE", "YIELD_VALUE", "END_FINALLY",
     "RAISE_VARARGS", "SETUP_LOOP", "SETUP_EXCEPT", "SETUP_FINALLY", "POP_BLOCK",
     "POP_EXCEPT", "BREAK_LOOP", "CONTINUE_LOOP", "LOAD_DEREF", "STORE_DEREF",
     "CALL_FUNCTION", "FOR_ITER", "YIELD_FROM", "COMPARE_OP", "SETUP_WITH",
     "WITH_CLEANUP"}

\* byteName.startswith(prefix) and byteName[k:].
StartsWith(name, prefix) ==
    Len(name) >= Len(prefix) /\ SubSeq(name, 1, Len(prefix)) = prefix
From(name, k) == SubSeq(name, k + 1, Len(name))

\* The names dispatch hands to binaryOperator and inplaceOperator.
IsOperatorName(name) == StartsWith(name, "BINARY_") \/ StartsWith(name, "INPLACE_")

\* The body of the try block of dispatch: the handler chosen by name.
RunHandler(h, ins) ==
    CASE ins.name \in {"RESUME", "CACHE"} -> h
      [] StartsWith(ins.name, "BINARY_") -> binaryOperator(h, From(ins.name, 7))
      [] StartsWith(ins.name, "INPLACE_") -> inplaceOperator(h, From(ins.name, 8))
      [] ~IsOperatorName(ins.name) /\ ins.name \notin HandlerNames \cup {"RESUME", "CACHE"} ->
           Raise(h, "VirtualMachineError", "Unknown bytecode type")
      [] ins.name = "LOAD_CONST" -> byte_LOAD_CONST(h, ins.arg)
      [] ins.name = "POP_TOP" -> byte_POP_TOP(h)
      [] ins.name = "RETURN_VALUE" -> byte_RETURN_VALUE(h)
      [] ins.name = "YIELD_VALUE" -> byte_YIELD_VALUE(h)
      [] ins.name = "END_FINALLY" -> byte_END_FINALLY(h)
      [] ins.name = "RAISE_VARARGS" -> byte_RAISE_VARARGS(h, ins.arg.n)
      [] ins.name = "SETUP_LOOP" -> byte_SETUP_LOOP(h, ins.arg)
      [] ins.name = "SETUP_EXCEPT" -> byte_SETUP_EXCEPT(h, ins.arg)
      [] ins.name = "SETUP_FINALLY" -> byte_SETUP_FINALLY(h, ins.arg)
      [] ins.name = "POP_BLOCK" -> byte_POP_BLOCK(h)
      [] ins.name = "POP_EXCEPT" -> byte_POP_EXCEPT(h)
      [] ins.name = "BREAK_LOOP" -> byte_BREAK_LOOP(h)
      [] ins.name = "CONTINUE_LOOP" -> byte_CONTINUE_LOOP(h, ins.arg)
      [] ins.name = "LOAD_DEREF" -> byte_LOAD_DEREF(h)
      [] ins.name = "STORE_DEREF" -> byte_STORE_DEREF(h)
      [] ins.name = "CALL_FUNCTION" -> byte_CALL_FUNCTION(h, ins.arg.n)
      [] ins.name = "FOR_ITER" -> byte_FOR_ITER(h, ins.arg)
      [] ins.name = "YIELD_FROM" -> byte_YIELD_FROM(h)
      [] ins.name = "COMPARE_OP" -> byte_COMPARE_OP(h, ins.arg.n)
      [] ins.name = "SETUP_WITH" -> byte_SETUP_WITH(h, ins.arg)
      [] ins.name = "WITH_CLEANUP" -> byte_WITH_CLEANUP(h)

\* "except Exception" in dispatch: the exception classes the clause catches.
DispatchCatches(cls) == cls \in ExceptionClasses

\* sys.exc_info() in the except clause: the class, the exception and its
\* traceback.
exc_info(h) ==
    <<ClassV(h.raised), ExcV(h.raised, h.msg), [t |-> "traceback", s |-> "", n |-> 0]>>

\* A dispatch that would keep the whole of sys.exc_info().
Stashed_WholeTriple(info) == info

\* "sys.exc_info()[:2] + (None,)"
Stashed(info) == SubSeq(info, 1, 2) \o <<NoneV>>

\* VirtualMachine.dispatch: run the handler; an exception it raises that the
\* except clause catches becomes last_exception = (type, value, None) and the
\* reason "exception"; any other leaves dispatch. DispatchEnds is dispatch
\* from the end of the handler on: h0 is the state the handler started in, h
\* the state it left; the frame and the engine take over what the handler did.
DispatchEnds(ins, h0, h) ==
    LET caught == h.raised # "" /\ DispatchCatches(h.raised)
        cur == IF frame = 0 THEN heap
               ELSE [heap EXCEPT ![frame].stack = h.stack,
                                 ![frame].block_stack = h.block_stack,
                                 ![frame].f_lasti = h.f_lasti,
                                 ![frame].cells = h.cells]
        fin == IF h.fin THEN [gens EXCEPT ![heap[frame].generator].finished = TRUE]
               ELSE gens
        sent == h.sent # <<>>
        g == IF sent THEN h.sent[1].gen ELSE 0
        resumed == IF sent
                   THEN [cur EXCEPT ![gens[g].gi_frame].stack = Append(@, h.sent[1].value),
                                    ![gens[g].gi_frame].f_back = frame]
                   ELSE cur
        begun == IF sent THEN [fin EXCEPT ![g].started = TRUE] ELSE fin
    IN /\ heap' = resumed \o h.new
       /\ gens' = IF h.new # <<>> THEN Append(begun, NewGenerator(Len(heap) + 1))
                  ELSE begun
       /\ cellobjs' = h.store
       /\ return_value' = h.rv
       /\ last_exception' =
            IF caught THEN Stashed(exc_info(h)) ELSE h.le
       /\ outcome' = [NoCall EXCEPT !.op = "dispatch", !.ins = ins.name,
                        !.arg = ins.arg, !.stack0 = h0.stack, !.cur = frame,
                        !.rv0 = h0.rv, !.exited = h.exited,
                        !.block = IF h0.block_stack = <<>> THEN NoBlock
                                  ELSE TopBlock(h0),
                        !.hraised = h.raised,
                        !.why = IF caught THEN "exception" ELSE h.why,
                        !.raised = IF caught THEN "" ELSE h.raised,
                        !.msg = IF caught THEN "" ELSE h.msg]

Dispatch(ins) ==
    /\ Call
    /\ ins \in Instructions
    /\ DispatchEnds(ins, HandlerState, RunHandler(HandlerState, ins))
    /\ UNCHANGED <<frames, frame>>

\* ------------------------------------------------------------ specification
\* The instructions that end or suspend a frame, and POP_TOP.
ResumeInstructions ==
    {ins \in Instructions : ins.name \in {"POP_TOP", "RETURN_VALUE", "YIELD_VALUE"}}

\* The engine as its callers drive it: run_code, calls of interpreted
\* functions, generators resumed, frames pushed and popped, frames ended.
Next ==
    \/ \E prog \in Programs : RunCode(prog)
    \/ \E f \in 1..MaxOps : RunFrame(f)
    \/ \E f \in 1..MaxOps : PushFrame(f)
    \/ PopFrame
    \/ \E isgen \in BOOLEAN : FunctionCall(isgen)
    \/ \E g \in 1..MaxOps, value \in SendValues : Send(g, value)
    \/ \E ins \in ResumeInstructions : Dispatch(ins)

Spec == Init /\ [][Next]_vars

\* The instruction handlers under dispatch, on a frame made current.
NextDispatch ==
    \/ FunctionCall(TRUE)
    \/ \E f \in 1..MaxOps : PushFrame(f)
    \/ \E ins \in BasicInstructions : Dispatch(ins)

SpecDispatch == Init /\ [][NextDispatch]_vars

\* Control blocks: one frame is made and made current; blocks are set up and
\* popped on it, and manage_block_stack is called with each reason; the loop
\* program is run.
NextBlocks ==
    \/ heap = <<>> /\ FunctionCall(TRUE)
    \/ frames = <<>> /\ \E f \in 1..MaxOps : PushFrame(f)
    \/ \E ins \in BlockInstructions : Dispatch(ins)
    \/ \E why \in Reasons : ManageBlockStack(why)
    \/ RunCode(LoopProgram)

SpecBlocks == Init /\ [][NextBlocks]_vars

\* Argument binding: f called with every combination of arguments, g with a
\* and b given.
BindCalls ==
    {[fn |-> "f", pos |-> pos, kw |-> kw] : pos \in PosArgs, kw \in KwArgs}
    \cup {[fn |-> "g", pos |-> <<IntV(1), IntV(2)>>, kw |-> kw] :
             kw \in {NoKwargs, [NoKwargs EXCEPT !["c"] = IntV(3)]}}

NextBind == \E c \in BindCalls : CallFunction(c.fn, c.pos, c.kw)

SpecBind == Init /\ [][NextBind]_vars

\* The calls the host makes beside those of CALL_FUNCTION: g(1, 2), make()
\* and inc().
Calls ==
    {[fn |-> "g", pos |-> <<IntV(1), IntV(2)>>, kw |-> NoKwargs]}
    \cup {[fn |-> fn, pos |-> <<>>, kw |-> NoKwargs] : fn \in {"make", "inc"}}

\* Calls of interpreted functions, by the host and by CALL_FUNCTION, and the
\* cells of their frames; a caller and a callee are made current.
NextCalls ==
    \/ \E c \in Calls : CallFunction(c.fn, c.pos, c.kw)
    \/ Len(frames) < 2 /\ \E f \in 1..MaxOps : PushFrame(f)
    \/ \E ins \in CallInstructions : Dispatch(ins)

SpecCalls == Init /\ [][NextCalls]_vars

\* Unwinding on a frame in the middle of a run: its operand stack holds up to
\* MaxDepth entries, its block stack one block of level 0 or 1 or none, and
\* last_exception is None or the triple of a ValueError.
UnwindValues == {IntV(1), ClassV("ValueError")}
UnwindBlocks ==
    {<<>>} \cup {<<Block(t, IntV(4), l)>> :
                   t \in {"loop", "setup-except", "finally", "except-handler"},
                   l \in 0..1}
UnwindExceptions ==
    {<<>>, <<ClassV("ValueError"), ExcV("ValueError", "x"), NoneV>>}

InitUnwind ==
    InitWith(SeqsUpTo(UnwindValues, MaxDepth), UnwindBlocks, UnwindExceptions, FALSE)

NextUnwind ==
    \/ Step /\ Dispatch(Ins("POP_EXCEPT", NoneV))
    \/ Step /\ \E why \in Reasons : ManageBlockStack(why)
    \/ Step /\ RunFrame(1)

SpecUnwind == InitUnwind /\ [][NextUnwind]_vars

\* Iteration on the frame of a started Generator in the middle of its run: its
\* operand stack holds values sent to it, host iterators with one item left or
\* none, and the Generator itself.
IterValues == {NoneV, IntV(1), IterV(0), IterV(1), GenV(1)}

InitIter == InitWith(SeqsUpTo(IterValues, MaxDepth), {<<>>}, {<<>>}, TRUE)

NextIter ==
    \/ Step /\ \E ins \in IterInstructions : Dispatch(ins)
    \/ Step /\ \E value \in SendValues : Send(1, value)

SpecIter == InitIter /\ [][NextIter]_vars

\* Operators: a frame is current whose stack holds ints and None; binary and
\* in-place operator instructions are dispatched on it.
OperandValues == {NoneV, IntV(0), IntV(3), IntV(5)}

InitOperands == InitWith(SeqsUpTo(OperandValues, MaxDepth), {<<>>}, {<<>>}, FALSE)

NextOperands == Step /\ \E ins \in OperatorInstructions : Dispatch(ins)

SpecOperands == InitOperands /\ [][NextOperands]_vars

\* Comparison: a frame is current whose stack holds None, ints, a tuple and a
\* class; COMPARE_OP is dispatched on it.
CompareValues == {NoneV, IntV(1), IntV(2), TupleV(2), ClassV("int")}

InitCompare == InitWith(SeqsUpTo(CompareValues, MaxDepth), {<<>>}, {<<>>}, FALSE)

NextCompare == Step /\ \E ins \in CompareInstructions : Dispatch(ins)

SpecCompare == InitCompare /\ [][NextCompare]_vars

\* Decoding: the co_code of a code object is a bytes object; it holds opcodes
\* without an operand (POP_TOP), with one (LOAD_CONST), and operand bytes.
CodeBytes == {IntV(0), IntV(1), IntV(100)}

NextDecode ==
    Step /\ \E co_code \in SeqsUpTo(CodeBytes, MaxDepth), opoffset \in 0..MaxDepth,
               viavm \in BOOLEAN :
                ParseByteAndArgs(co_code, opoffset, viavm)

SpecDecode == Init /\ [][NextDecode]_vars

\* The engine called by the host on a frame whose stack is drawn: dispatch of
\* instructions whose handlers return None, return a reason or raise, with
\* sys.exit among the callables; and popn.
HostInstructions ==
    {Ins(n, NoneV) : n \in {"POP_TOP", "RETURN_VALUE", "BREAK_LOOP", "POP_EXCEPT", "NOP"}}
    \cup {Ins("RAISE_VARARGS", IntV(1)), Ins("CALL_FUNCTION", IntV(0))}

HostValues == {IntV(1), ClassV("ValueError"), BuiltinV("exit")}

InitHost == InitWith(SeqsUpTo(HostValues, MaxDepth), {<<>>}, UnwindExceptions, FALSE)

NextHost ==
    \/ Step /\ \E ins \in HostInstructions : Dispatch(ins)
    \/ Step /\ \E n \in 0..MaxDepth : Popn(n)

SpecHost == InitHost /\ [][NextHost]_vars

\* Cells: a frame is current whose stack is drawn; the host calls make(),
\* inc() and hold with no, one and two arguments; values are loaded, and
\* stored to and loaded from the Cell of counter.
NextCells ==
    \/ Step /\ \E fn \in {"make", "inc"} : CallFunction(fn, <<>>, NoKwargs)
    \/ Step /\ \E n \in 0..2 : CallFunction("hold", [i \in 1..n |-> IntV(i)], NoKwargs)
    \/ Step /\ \E ins \in {Ins("LOAD_CONST", IntV(1)), Ins("LOAD_DEREF", StrV("counter")),
                           Ins("STORE_DEREF", StrV("counter"))} : Dispatch(ins)

SpecCells ==
    /\ InitWith(SeqsUpTo({IntV(1), IntV(2)}, MaxDepth), {<<>>}, {<<>>}, FALSE)
    /\ [][NextCells]_vars

\* A return through a finally block: the frame is in the body of a try with a
\* finally handler, with up to two values on its stack; values are loaded and
\* returned, the reason return is handed to manage_block_stack, and
\* END_FINALLY ends the handler.
NextFinally ==
    \/ ops < MaxFinally /\ \E c \in {NoneV, IntV(1)} : Dispatch(Ins("LOAD_CONST", c))
    \/ ops < MaxFinally /\ Dispatch(Ins("RETURN_VALUE", NoneV))
    \/ ops < MaxFinally /\ ManageBlockStack("return")
    \/ ops < MaxFinally /\ Dispatch(Ins("END_FINALLY", NoneV))

SpecFinally ==
    /\ InitWith(SeqsUpTo({IntV(1), IntV(2)}, 2),
                {<<Block("finally", IntV(4), l)>> : l \in 0..1}, {<<>>}, FALSE)
    /\ [][NextFinally]_vars

\* A with statement whose body raises: the frame holds a context manager on
\* up to three values; SETUP_WITH enters it, the result of __enter__ is popped,
\* ValueError is loaded and raised, the reason exception is handed to
\* manage_block_stack and WITH_CLEANUP runs.
NextWith ==
    \/ ops < MaxOps /\ Dispatch(Ins("SETUP_WITH", IntV(4)))
    \/ ops < MaxOps /\ Dispatch(Ins("POP_TOP", NoneV))
    \/ ops < MaxOps /\ Dispatch(Ins("LOAD_CONST", ClassV("ValueError")))
    \/ ops < MaxOps /\ Dispatch(Ins("RAISE_VARARGS", IntV(1)))
    \/ ops < MaxOps /\ ManageBlockStack("exception")
    \/ ops < MaxOps /\ Dispatch(Ins("WITH_CLEANUP", NoneV))

SpecWith ==
    /\ InitWith({Append(s, CtxV(r)) : s \in SeqsUpTo({IntV(1)}, MaxDepth - 1), r \in 0..1},
                {<<>>}, {<<>>}, FALSE)
    /\ [][NextWith]_vars

\* Calls on drawn stacks: the generator function g, its arguments, the
\* keyword b and the Methods of g; CALL_FUNCTION is dispatched on them.
NextMethods == Step /\ \E k \in CallOperands : Dispatch(Ins("CALL_FUNCTION", IntV(k)))

SpecMethods ==
    /\ InitWith(SeqsUpTo({FuncV("g"), IntV(1), StrV("b"), MethodV(1), MethodV(2),
                          MethodV(3)}, MaxDepth), {<<>>}, {<<>>}, FALSE)
    /\ [][NextMethods]_vars

\* ------------------------------------------------------------------- claims
\* C1: for every program, run_code gives the result of the reference
\* interpreter: the same exception (type and message) or none in both, the
\* same returned value, the same standard output.
C1_SameAsReference ==
    outcome.op = "run_code" =>
        LET ref == PyReference(outcome.prog)
        IN /\ outcome.raised = ref.raised
           /\ outcome.msg = ref.msg
           /\ outcome.value = ref.value
           /\ outcome.out = ref.out

\* C3: when the top-level frame has finished and a frame is still on the
\* engine's frame stack, or an entry is still on the top-level frame's operand
\* stack, run_code raises VirtualMachineError.
C3_LeftoverRaisesDefect ==
    (outcome.op = "run_code" /\ (frames # <<>> \/ outcome.stack # <<>>))
        => outcome.raised = "VirtualMachineError"

\* C4: when a frame's execution ends with reason exception, run_frame, and
\* run_code for the top-level frame, raises that same exception to its caller.
C4_SameExceptionPropagates ==
    (outcome.op \in {"run_frame", "run_code"} /\ outcome.why = "exception")
        => (outcome.raised = outcome.exc /\ outcome.exc # "")

\* C5: a VirtualMachineError raised while an instruction is handled leaves
\* dispatch as VirtualMachineError: it is not turned into reason exception and
\* is not stored as last_exception.
C5_DefectNotCatchable ==
    (outcome.op = "dispatch" /\ outcome.hraised = "VirtualMachineError")
        => /\ outcome.raised = "VirtualMachineError"
           /\ outcome.why # "exception"
           /\ (last_exception = <<>> \/ last_exception[1] # ClassV("VirtualMachineError"))

\* C6: the diagnostic report made when run_frame detects an exception never
\* raises, and the exception that was detected is the one that goes on to
\* propagate.
C6_ReportNeverAborts ==
    outcome.report # "" => (outcome.report = "ok" /\ outcome.raised = outcome.exc)

\* C7: send of a non-None value to a generator that was never started raises
\* TypeError and changes nothing: started and finished stay false, nothing is
\* pushed on the generator frame's stack, and the frame is not resumed (its
\* f_back is not set, no state of the engine changes).
C7_FreshSendRejected ==
    [][(/\ ops' # ops
        /\ outcome'.op = "send"
        /\ outcome'.arg # NoneV
        /\ ~gens[outcome'.gen].started)
       => (/\ outcome'.raised = "TypeError"
           /\ gens' = gens
           /\ ~gens'[outcome'.gen].started
           /\ ~gens'[outcome'.gen].finished
           /\ heap' = heap
           /\ UNCHANGED <<frames, frame, return_value, last_exception, cellobjs>>)]_vars

\* A send of a non-None value to a never-started generator has been rejected.
C7_Witness ==
    /\ outcome.op = "send"
    /\ outcome.arg # NoneV
    /\ ~outcome.started0
    /\ outcome.raised = "TypeError"
    /\ ~gens[outcome.gen].started

\* C8: every resumption of a generator that send accepts ends in one of two
\* ways: the frame executed RETURN_VALUE, finished is true and send raises
\* StopIteration carrying return_value; or the frame yielded, finished is
\* false and send returns the yielded value.
C8_ResumptionOutcome ==
    (outcome.op = "send" /\ ~SendRejects(outcome.started0, outcome.arg))
        => \/ /\ outcome.raised = "StopIteration"
              /\ gens[outcome.gen].finished
              /\ outcome.value = return_value
           \/ /\ outcome.raised = ""
              /\ ~gens[outcome.gen].finished
              /\ outcome.value = return_value

\* C9: send or next on a generator whose finished flag is already true raises
\* StopIteration carrying the generator's final return value.
C9_ExhaustedReportsStop ==
    (outcome.op = "send" /\ outcome.finished0)
        => (outcome.raised = "StopIteration" /\ outcome.value = return_value)

\* C11: a call of the nested function inc, whose frame holds the Cell of the
\* captured variable counter that the enclosing code wrote to, returns what
\* that Cell holds after the call (the incremented counter).
C11_ClosureObservesWrites ==
    (outcome.op = "call" /\ outcome.fn = "inc" /\ outcome.made)
        => /\ outcome.raised = ""
           /\ outcome.value = cellobjs[outcome.cells.counter]

\* C12: the frame built for a call of f(a, b, c=10) or g(a, b, c=10) binds
\* every parameter in its locals: a positional argument in order, else the
\* keyword argument of its name, else the parameter's default.
C12_ArgumentsBound ==
    (outcome.op = "call" /\ outcome.fn \in {"f", "g"} /\ outcome.made)
        => LET code == FunctionCode(outcome.fn)
           IN \A i \in 1..Len(code.params) :
                outcome.locals[code.params[i]] =
                    IF i <= Len(outcome.pos) THEN outcome.pos[i]
                    ELSE IF outcome.kw[code.params[i]] # Unbound
                    THEN outcome.kw[code.params[i]]
                    ELSE code.defaults[code.params[i]]

\* C13: an unwind of a block by manage_block_stack or POP_EXCEPT, at any depth
\* of the operand stack, pops no entry below block.level: the entries below
\* the level (all entries, if the stack is shallower) are still there after it.
C13_UnwindKeepsBelowLevel ==
    LET unwound ==
          \/ /\ outcome.op = "manage_block_stack"
             /\ outcome.block # NoBlock
             /\ outcome.why0 # "yield"
             /\ ~(outcome.block.type = "loop" /\ outcome.why0 = "continue")
          \/ /\ outcome.op = "dispatch"
             /\ outcome.ins = "POP_EXCEPT"
             /\ outcome.block.type = "except-handler"
        s0 == outcome.stack0
        s1 == heap[outcome.cur].stack
        m == IF Len(s0) < outcome.block.level THEN Len(s0) ELSE outcome.block.level
    IN (unwound /\ outcome.cur # 0)
           => (Len(s1) >= m /\ SubSeq(s1, 1, m) = SubSeq(s0, 1, m))

\* C14: a frame built by a call starts with an empty operand stack; a call, or
\* an instruction dispatched in the current frame, changes the operand stack of
\* no other frame; a call by the host leaves the current frame's stack alone,
\* and CALL_FUNCTION changes it only by pops of the callable and arguments and
\* at most one push of the result.
C14_CallerIsolated ==
    [][(ops' # ops /\ outcome'.op \in {"dispatch", "call"})
       => /\ \A f \in 1..Len(heap) : f # frame => heap'[f].stack = heap[f].stack
          /\ \A f \in 1..Len(heap') : f > Len(heap) => heap'[f].stack = <<>>
          /\ (outcome'.op = "call" /\ outcome'.made) => outcome'.stack = <<>>
          /\ (outcome'.op = "call" /\ frame # 0)
                => heap'[frame].stack = heap[frame].stack
          /\ (outcome'.op = "dispatch" /\ outcome'.ins = "CALL_FUNCTION" /\ frame # 0)
                => LET s0 == heap[frame].stack
                       s1 == heap'[frame].stack
                       n == (outcome'.arg.n % ArgBase)
                            + 2 * (outcome'.arg.n \div ArgBase) + 1
                       base == IF Len(s0) > n THEN Len(s0) - n ELSE 0
                   IN \/ /\ Len(s1) >= base
                         /\ Len(s1) <= Len(s0)
                         /\ s1 = SubSeq(s0, 1, Len(s1))
                      \/ /\ Len(s1) = base + 1
                         /\ SubSeq(s1, 1, base) = SubSeq(s0, 1, base)]_vars

\* CALL_FUNCTION has called a generator function from the current frame: the
\* callable and two arguments are gone from the caller's stack, the Generator
\* is on it, and the callee's frame has an empty stack of its own.
C14_Witness ==
    /\ outcome.op = "dispatch"
    /\ outcome.ins = "CALL_FUNCTION"
    /\ outcome.hraised = ""
    /\ frame # 0
    /\ Len(outcome.stack0) = 3
    /\ heap[frame].stack = <<GenV(Len(gens))>>
    /\ heap[Len(heap)].f_back = frame
    /\ heap[Len(heap)].stack = <<>>

\* C15: run_frame pushes the frame on entry, so that the frame handed to it is
\* the engine's current frame while its body runs.
C15_RunFrameBrackets ==
    outcome.op = "run_frame" => outcome.cur = outcome.fr

\* C16: when an instruction has returned reason exception and that reason
\* reaches an innermost setup-except or finally block of level L (the stack at
\* least L deep), manage_block_stack replaces the block by an except-handler
\* block of level L, cuts the stack to depth L, pushes traceback, value and type
\* of last_exception (type on top), sets f_lasti to the block's handler and
\* returns reason none, raising nothing.
C16_ExceptionTransition ==
    [][(/\ ops' # ops
        /\ outcome.op = "dispatch"
        /\ outcome.why = "exception"
        /\ outcome'.op = "manage_block_stack"
        /\ outcome'.why0 = "exception"
        /\ outcome'.block.type \in {"setup-except", "finally"}
        /\ Len(outcome'.stack0) >= outcome'.block.level)
       => LET L == outcome'.block.level
              bs == heap[frame].block_stack
          IN /\ outcome'.raised = ""
             /\ outcome'.why = "none"
             /\ last_exception' # <<>>
             /\ heap'[frame].block_stack =
                  Append(SubSeq(bs, 1, Len(bs) - 1), Block("except-handler", NoneV, L))
             /\ heap'[frame].stack =
                  SubSeq(heap[frame].stack, 1, L)
                  \o <<last_exception'[3], last_exception'[2], last_exception'[1]>>
             /\ heap'[frame].f_lasti = outcome'.block.handler]_vars

\* C17: when reason return or continue reaches an innermost finally block of
\* level L (the stack at least L deep), manage_block_stack pops the block, cuts
\* the stack to depth L, pushes return_value and then the reason token (on top,
\* at depth L + 2), sets f_lasti to the block's handler and returns reason none.
C17_FinallyTransition ==
    [][(/\ ops' # ops
        /\ outcome'.op = "manage_block_stack"
        /\ outcome'.why0 \in {"return", "continue"}
        /\ outcome'.block.type = "finally"
        /\ Len(outcome'.stack0) >= outcome'.block.level)
       => LET L == outcome'.block.level
              bs == heap[frame].block_stack
          IN /\ outcome'.raised = ""
             /\ outcome'.why = "none"
             /\ heap'[frame].block_stack = SubSeq(bs, 1, Len(bs) - 1)
             /\ heap'[frame].stack =
                  SubSeq(heap[frame].stack, 1, L)
                  \o <<return_value, StrV(outcome'.why0)>>
             /\ Len(heap'[frame].stack) = L + 2
             /\ heap'[frame].f_lasti = outcome'.block.handler
             /\ return_value' = return_value]_vars

\* Reason return has reached a finally block below an entry of the stack: the
\* entry was cut, return_value and the token "return" are on the stack.
C17_Witness ==
    /\ outcome.op = "manage_block_stack"
    /\ outcome.why0 = "return"
    /\ outcome.block.type = "finally"
    /\ Len(outcome.stack0) > outcome.block.level
    /\ outcome.why = "none"
    /\ heap[frame].stack =
         SubSeq(outcome.stack0, 1, outcome.block.level)
         \o <<return_value, StrV("return")>>

\* C18: when reason break reaches an innermost loop block of level L and
\* handler H (the stack at least L deep), manage_block_stack pops the block,
\* cuts the stack to depth L, sets f_lasti to H and returns reason none; and
\* the run of the loop that sums [1, 2, 3] and breaks when total > 2 ends
\* without an exception.
C18_BreakEndsLoop ==
    /\ [][(/\ ops' # ops
           /\ outcome'.op = "manage_block_stack"
           /\ outcome'.why0 = "break"
           /\ outcome'.block.type = "loop"
           /\ Len(outcome'.stack0) >= outcome'.block.level)
          => LET bs == heap[frame].block_stack
             IN /\ outcome'.raised = ""
                /\ outcome'.why = "none"
                /\ heap'[frame].block_stack = SubSeq(bs, 1, Len(bs) - 1)
                /\ heap'[frame].stack =
                     SubSeq(heap[frame].stack, 1, outcome'.block.level)
                /\ heap'[frame].f_lasti = outcome'.block.handler]_vars
    /\ [](outcome.op = "run_code" /\ outcome.prog = LoopProgram
            => outcome.raised = PyReference(LoopProgram).raised)

\* C19: when reason continue reaches an innermost loop block,
\* manage_block_stack sets f_lasti to return_value, returns reason none and
\* leaves the block stack and the operand stack as they are.
C19_ContinueTransition ==
    [][(/\ ops' # ops
        /\ outcome'.op = "manage_block_stack"
        /\ outcome'.why0 = "continue"
        /\ outcome'.block.type = "loop")
       => /\ outcome'.raised = ""
          /\ outcome'.why = "none"
          /\ heap'[frame].f_lasti = return_value
          /\ heap'[frame].block_stack = heap[frame].block_stack
          /\ heap'[frame].stack = heap[frame].stack
          /\ return_value' = return_value]_vars

\* CONTINUE_LOOP has stored its target in return_value and reason continue has
\* reached the loop block: f_lasti is the target, the loop block is still the
\* innermost block.
C19_Witness ==
    /\ outcome.op = "manage_block_stack"
    /\ outcome.why0 = "continue"
    /\ outcome.block.type = "loop"
    /\ outcome.why = "none"
    /\ return_value = IntV(8)
    /\ heap[frame].f_lasti = return_value
    /\ heap[frame].stack # <<>>
    /\ heap[frame].block_stack # <<>>
    /\ heap[frame].block_stack[Len(heap[frame].block_stack)] = outcome.block

\* The pairs of block type and reason of the statement of C20, and those that
\* manage_block_stack leaves to the next block: a finally block takes every
\* reason.
C20_StatedPairs ==
    {<<"loop", "return">>, <<"loop", "exception">>, <<"finally", "break">>}
    \cup {<<"setup-except", w>> : w \in {"return", "continue", "break"}}
    \cup {<<"except-handler", w>> : w \in {"exception", "return", "continue", "break"}}

C20_PassedPairs == C20_StatedPairs \ {<<"finally", "break">>}

\* The transition of a pair that is passed on: the block is popped, the stack
\* is cut to the block's level, f_lasti stays and the reason is returned.
C20_PassedOn(pairs) ==
    (/\ ops' # ops
     /\ outcome'.op = "manage_block_stack"
     /\ <<outcome'.block.type, outcome'.why0>> \in pairs
     /\ Len(outcome'.stack0) >= outcome'.block.level
                                + (IF outcome'.block.type = "except-handler" THEN 3 ELSE 0))
    => LET bs == heap[frame].block_stack
       IN /\ outcome'.raised = ""
          /\ outcome'.why = outcome'.why0
          /\ heap'[frame].block_stack = SubSeq(bs, 1, Len(bs) - 1)
          /\ heap'[frame].stack = SubSeq(heap[frame].stack, 1, outcome'.block.level)
          /\ heap'[frame].f_lasti = heap[frame].f_lasti

\* C20 as stated: every pair of block type and reason other than loop/continue,
\* loop/break, setup-except-or-finally/exception and finally/return-or-continue,
\* finally/break among them, is passed on: block popped, stack cut to the
\* block's level, no jump, nothing pushed, reason returned unchanged.
C20_UnmatchedPassedOn == [][C20_PassedOn(C20_StatedPairs)]_vars

\* C20, amended: the pairs loop/return, loop/exception, setup-except with
\* return, continue or break, and except-handler with any reason are passed on
\* (block popped, stack cut to the block's level, no jump, nothing pushed,
\* reason returned unchanged); a finally block reached by break is not: the
\* block is popped, the stack cut to its level, the token "break" pushed,
\* f_lasti set to the block's handler and reason none returned.
C20_UnmatchedPassedOnAmended ==
    [][/\ C20_PassedOn(C20_PassedPairs)
       /\ (/\ ops' # ops
           /\ outcome'.op = "manage_block_stack"
           /\ outcome'.block.type = "finally"
           /\ outcome'.why0 = "break"
           /\ Len(outcome'.stack0) >= outcome'.block.level)
          => /\ outcome'.raised = ""
             /\ outcome'.why = "none"
             /\ heap'[frame].stack =
                  Append(SubSeq(heap[frame].stack, 1, outcome'.block.level),
                         StrV("break"))
             /\ heap'[frame].f_lasti = outcome'.block.handler]_vars

\* Reason break has reached a setup-except block below an entry of the stack:
\* the block is gone, the entry was cut, break is returned.
C20_Witness ==
    /\ outcome.op = "manage_block_stack"
    /\ outcome.why0 = "break"
    /\ outcome.block.type = "setup-except"
    /\ Len(outcome.stack0) > outcome.block.level
    /\ outcome.why = "break"
    /\ heap[frame].stack = SubSeq(outcome.stack0, 1, outcome.block.level)
    /\ heap[frame].block_stack = <<>>

\* C21: when run_frame has stopped with reason return or exception, every
\* control block of the frame has been offered the reason and popped: the
\* frame's block stack is empty.
C21_StopsWithBlocksUnwound ==
    (outcome.op = "run_frame" /\ outcome.why \in {"return", "exception"})
        => heap[outcome.fr].block_stack = <<>>

\* C22: when an except-handler block of level L is discarded (by POP_EXCEPT or
\* by manage_block_stack) with the stack at least L + 3 deep, the three
\* entries at positions L + 1 .. L + 3 become last_exception = (type, value,
\* traceback), the type being the topmost of them; the entries above are
\* dropped, the stack is exactly L deep and its lowest L entries are kept.
C22_HandlerDiscarded ==
    [][(/\ ops' # ops
        /\ \/ outcome'.op = "dispatch" /\ outcome'.ins = "POP_EXCEPT"
           \/ outcome'.op = "manage_block_stack" /\ outcome'.why0 # "yield"
        /\ outcome'.block.type = "except-handler"
        /\ Len(outcome'.stack0) >= outcome'.block.level + 3)
       => LET L == outcome'.block.level
              s0 == heap[frame].stack
          IN /\ outcome'.raised = ""
             /\ outcome'.hraised = ""
             /\ heap'[frame].stack = SubSeq(s0, 1, L)
             /\ last_exception' = <<s0[L + 3], s0[L + 2], s0[L + 1]>>]_vars

\* The exception transition has pushed the triple of last_exception above one
\* entry and POP_EXCEPT has run directly after it: the stack is back at the
\* depth of the block's level and last_exception is the triple again.
C22_Witness ==
    /\ outcome.op = "dispatch"
    /\ outcome.ins = "POP_EXCEPT"
    /\ outcome.hraised = ""
    /\ outcome.block = Block("except-handler", NoneV, 1)
    /\ outcome.stack0 = <<IntV(1), NoneV, ExcV("ValueError", "x"), ClassV("ValueError")>>
    /\ heap[frame].stack = <<IntV(1)>>
    /\ last_exception = <<ClassV("ValueError"), ExcV("ValueError", "x"), NoneV>>

\* C23: YIELD_VALUE on a stack with an entry pops it into return_value and
\* reports reason yield, leaving the block stack, the instruction pointer and
\* the rest of the stack of the frame as they are; and the next resumption of
\* the frame's generator continues the frame: send returns the next yielded
\* value or raises StopIteration, and nothing else.
C23_YieldSuspends ==
    [][/\ (/\ ops' # ops
           /\ outcome'.op = "dispatch"
           /\ outcome'.ins = "YIELD_VALUE"
           /\ frame # 0
           /\ heap[frame].stack # <<>>)
          => LET s0 == heap[frame].stack
             IN /\ outcome'.why = "yield"
                /\ return_value' = s0[Len(s0)]
                /\ heap'[frame].stack = SubSeq(s0, 1, Len(s0) - 1)
                /\ heap'[frame].block_stack = heap[frame].block_stack
                /\ heap'[frame].f_lasti = heap[frame].f_lasti
       /\ (/\ ops' # ops
           /\ outcome.op = "dispatch"
           /\ outcome.ins = "YIELD_VALUE"
           /\ outcome.why = "yield"
           /\ frame # 0
           /\ heap[frame].generator # 0
           /\ outcome'.op = "send"
           /\ outcome'.gen = heap[frame].generator)
          => outcome'.raised \in {"", "StopIteration"}]_vars

\* C24: YIELD_FROM pops the resumption value u; with the sub-iterator x then
\* on top, if x gives a value, return_value is that value, f_lasti is one
\* less (back on the YIELD_FROM), x stays on top of the stack and reason
\* yield is reported; if x is exhausted, x is replaced by its terminal value
\* and the reason is none; and the next resumption of the frame's generator
\* after the yield runs the frame again: send returns or raises StopIteration.
C24_YieldFromDelegates ==
    [][/\ (/\ ops' # ops
           /\ outcome'.op = "dispatch"
           /\ outcome'.ins = "YIELD_FROM"
           /\ frame # 0
           /\ Len(heap[frame].stack) >= 2
           /\ heap[frame].stack[Len(heap[frame].stack) - 1].t = "list_iterator")
          => LET s0 == heap[frame].stack
                 n == Len(s0)
                 x == s0[n - 1]
             IN IF x.n > 0
                THEN /\ outcome'.why = "yield"
                     /\ return_value' = IntV(x.n)
                     /\ heap'[frame].f_lasti = IntV(heap[frame].f_lasti.n - 1)
                     /\ heap'[frame].stack = Append(SubSeq(s0, 1, n - 2), IterV(x.n - 1))
                ELSE /\ outcome'.why = "none"
                     /\ outcome'.hraised = ""
                     /\ heap'[frame].stack = Append(SubSeq(s0, 1, n - 2), NoneV)
       /\ (/\ ops' # ops
           /\ outcome.op = "dispatch"
           /\ outcome.ins = "YIELD_FROM"
           /\ outcome.why = "yield"
           /\ frame # 0
           /\ heap[frame].generator # 0
           /\ outcome'.op = "send"
           /\ outcome'.gen = heap[frame].generator)
          => /\ heap'[frame].stack = Append(heap[frame].stack, outcome'.arg)
             /\ outcome'.raised \in {"", "StopIteration"}]_vars

\* C25: FOR_ITER with a host iterator on top of the stack: if the iterator
\* gives a value, the value is pushed above the iterator and f_lasti is not
\* changed; if it is exhausted, the iterator is popped and f_lasti is the
\* loop-end target; the reason is none in both cases and nothing is raised.
C25_ForIterAdvances ==
    [][(/\ ops' # ops
        /\ outcome'.op = "dispatch"
        /\ outcome'.ins = "FOR_ITER"
        /\ frame # 0
        /\ heap[frame].stack # <<>>
        /\ heap[frame].stack[Len(heap[frame].stack)].t = "list_iterator")
       => LET s0 == heap[frame].stack
              n == Len(s0)
              x == s0[n]
          IN /\ outcome'.why = "none"
             /\ outcome'.hraised = ""
             /\ last_exception' = last_exception
             /\ IF x.n > 0
                THEN /\ heap'[frame].stack =
                          SubSeq(s0, 1, n - 1) \o <<IterV(x.n - 1), IntV(x.n)>>
                     /\ heap'[frame].f_lasti = heap[frame].f_lasti
                ELSE /\ heap'[frame].stack = SubSeq(s0, 1, n - 1)
                     /\ heap'[frame].f_lasti = outcome'.arg]_vars

\* FOR_ITER has run with an iterator that had an item on top of another
\* entry: the item is on top of the iterator, one entry more than before, and
\* f_lasti is where it was.
C25_Witness ==
    /\ outcome.op = "dispatch"
    /\ outcome.ins = "FOR_ITER"
    /\ outcome.why = "none"
    /\ outcome.hraised = ""
    /\ outcome.stack0 = <<IntV(1), IterV(1)>>
    /\ heap[frame].stack = <<IntV(1), IterV(0), IntV(1)>>
    /\ heap[frame].f_lasti = IntV(0)

\* C26: a BINARY_* or INPLACE_* instruction dispatched on a stack that ends
\* with x, y (y on top), where x OP y has a value, leaves the stack one entry
\* shorter, with x OP y in the place of x and y.
C26_OperandOrder ==
    [][outcome'.op = "dispatch" /\ IsOperatorName(outcome'.ins)
       /\ Len(outcome'.stack0) >= 2
       => LET s0 == outcome'.stack0
              d == Len(s0)
              op == IF StartsWith(outcome'.ins, "BINARY_") THEN From(outcome'.ins, 7)
                    ELSE From(outcome'.ins, 8)
              r == BinaryResult(op, s0[d - 1], s0[d])
          IN r.raised = ""
             => /\ outcome'.why = "none"
                /\ heap'[1].stack = Append(SubSeq(s0, 1, d - 2), r.value)]_vars

\* C27: COMPARE_OP with index i in 0..11 dispatched on a stack that ends with
\* x, y (y on top), where the i-th predicate has a truth value on (x, y),
\* leaves the stack one entry shorter, with that truth value in the place of
\* x and y.
C27_CompareTable ==
    [][outcome'.op = "dispatch" /\ outcome'.ins = "COMPARE_OP"
       /\ outcome'.arg.n \in 0..11 /\ Len(outcome'.stack0) >= 2
       => LET s0 == outcome'.stack0
              d == Len(s0)
              r == CompareResult(outcome'.arg.n, s0[d - 1], s0[d])
          IN r.raised = ""
             => /\ outcome'.why = "none"
                /\ heap'[1].stack = Append(SubSeq(s0, 1, d - 2), r.value)]_vars

\* C28: decoding at an offset p that holds an opcode, through the class,
\* returns the name of the opcode; for an opcode >= HAVE_ARGUMENT followed by
\* its two operand bytes it returns the operand low + (high << 8) and the
\* offset p + 3, for an opcode below HAVE_ARGUMENT no operand and p + 1.
C28_DecodesInstruction ==
    [][outcome'.op = "parse_byte_and_args" /\ outcome'.raised # "TypeError"
       /\ outcome'.offset < Len(outcome'.code)
       => LET code == outcome'.code
              p == outcome'.offset
              b == code[p + 1].n
          IN IF b >= HAVE_ARGUMENT
             THEN p + 3 <= Len(code)
                  => /\ outcome'.raised = ""
                     /\ outcome'.ins = OpName(b)
                     /\ outcome'.arg = IntV(code[p + 2].n + code[p + 3].n * 256)
                     /\ outcome'.next = p + 3
             ELSE /\ outcome'.raised = ""
                  /\ outcome'.ins = OpName(b)
                  /\ outcome'.arg = NoneV
                  /\ outcome'.next = p + 1]_vars

\* What dispatch leaves for a handler that ended in h: for an exception of
\* the given classes the reason "exception" and last_exception = (type,
\* value, traceback), the traceback being that of the exception (withtb) or
\* None; for a handler that raised nothing the reason it returned and the
\* last_exception it left.
C29_Stashes(h, classes, withtb) ==
    /\ h.raised \in classes
       => /\ outcome'.raised = ""
          /\ outcome'.why = "exception"
          /\ last_exception' = <<ClassV(h.raised), ExcV(h.raised, h.msg),
                                 IF withtb THEN exc_info(h)[3] ELSE NoneV>>
    /\ h.raised = ""
       => /\ outcome'.raised = ""
          /\ outcome'.why = h.why
          /\ last_exception' = h.le

\* C29: an exception E a handler raises does not leave dispatch: the reason
\* is "exception" and last_exception is (type of E, E, traceback of E); a
\* handler that does not raise has its reason returned and last_exception
\* is as the handler left it.
C29_HandlerExceptionStashed ==
    [][outcome'.op = "dispatch"
       => C29_Stashes(RunHandler(HandlerState, Ins(outcome'.ins, outcome'.arg)),
                      BaseExceptionClasses, TRUE)]_vars

\* C29 (amended): an exception E of a class derived from Exception that a
\* handler raises does not leave dispatch: the reason is "exception" and
\* last_exception is (type of E, E, None); a handler that does not raise has
\* its reason returned and last_exception is as the handler left it.
C29_HandlerExceptionStashedAmended ==
    [][outcome'.op = "dispatch"
       => C29_Stashes(RunHandler(HandlerState, Ins(outcome'.ins, outcome'.arg)),
                      ExceptionClasses, FALSE)]_vars

\* POP_TOP was dispatched on an empty stack: dispatch returned "exception"
\* and the IndexError of the pop is last_exception, without a traceback.
C29_Witness ==
    /\ outcome.op = "dispatch" /\ outcome.ins = "POP_TOP"
    /\ outcome.stack0 = <<>>
    /\ outcome.hraised = "IndexError" /\ outcome.raised = ""
    /\ outcome.why = "exception"
    /\ last_exception = <<ClassV("IndexError"), ExcV("IndexError", "pop from empty list"),
                          NoneV>>

\* C30: popn(n) on a stack of depth d >= n returns the top n entries in
\* bottom-to-top order and leaves the lower d - n entries; popn(0) returns an
\* empty list and leaves the stack as it was.
C30_PopnTakesTop ==
    [][outcome'.op = "popn" /\ outcome'.arg.n <= Len(outcome'.stack0)
       => LET s0 == outcome'.stack0
              d == Len(s0)
              n == outcome'.arg.n
          IN /\ outcome'.raised = ""
             /\ heap[1].stack = s0
             /\ outcome'.ret = [i \in 1..n |-> s0[d - n + i]]
             /\ heap'[1].stack = [i \in 1..(d - n) |-> s0[i]]
             /\ n = 0 => outcome'.ret = <<>> /\ heap' = heap]_vars

\* popn(2) was called on the stack [1, ValueError, sys.exit]: it returned
\* [ValueError, sys.exit] and left [1].
C30_Witness ==
    /\ outcome.op = "popn" /\ outcome.arg = IntV(2) /\ outcome.raised = ""
    /\ outcome.stack0 = <<IntV(1), ClassV("ValueError"), BuiltinV("exit")>>
    /\ outcome.ret = <<ClassV("ValueError"), BuiltinV("exit")>>
    /\ heap[1].stack = <<IntV(1)>>

\* C31: CALL_FUNCTION with operand arg dispatched on a stack that holds kw =
\* arg div 256 keyword pairs above pos = arg mod 256 positional values above
\* the callable pops all of them; a call that succeeds pushes its one result,
\* a change of depth of -(2 * kw + pos); the function g receives the
\* positional values in bottom-to-top order and the keyword value by its key.
C31_OperandPacking ==
    [][outcome'.op = "dispatch" /\ outcome'.ins = "CALL_FUNCTION"
       => LET s0 == outcome'.stack0
              d == Len(s0)
              kw == outcome'.arg.n \div 256
              pos == outcome'.arg.n % 256
              base == d - (2 * kw + pos + 1)
              made == heap'[Len(heap')].f_locals
          IN base >= 0
             => /\ outcome'.hraised # "" => heap'[1].stack = SubSeq(s0, 1, base)
                /\ outcome'.hraised = ""
                   => /\ heap'[1].stack = Append(SubSeq(s0, 1, base), GenV(Len(gens')))
                      /\ Len(heap'[1].stack) = d - (2 * kw + pos)
                      /\ outcome'.why = "none"
                /\ outcome'.hraised = "" /\ s0[base + 1] = FuncV("g")
                   => /\ Len(heap') = Len(heap) + 1
                      /\ made.a = s0[base + 2]
                      /\ pos = 2 => made.b = s0[base + 3]
                      /\ kw = 1 => s0[d - 1] = StrV("b") /\ made.b = s0[d]]_vars

\* CALL_FUNCTION with operand 257 was dispatched on the stack [g, 1, 'b', 1]:
\* the stack holds the Generator of the call g(1, b=1).
C31_Witness ==
    /\ outcome.op = "dispatch" /\ outcome.ins = "CALL_FUNCTION"
    /\ outcome.arg = IntV(ArgBase + 1)
    /\ outcome.stack0 = <<FuncV("g"), IntV(1), StrV("b"), IntV(1)>>
    /\ outcome.hraised = ""
    /\ heap[1].stack = <<GenV(1)>>
    /\ heap[2].f_locals.a = IntV(1) /\ heap[2].f_locals.b = IntV(1)

\* C32: CALL_FUNCTION on a Method with its arguments on the stack: the
\* receiver of a bound Method is the first positional argument of the call
\* made; when the first positional argument is no instance of the Method's
\* class, the handler raises TypeError (reason exception) and no call is made.
C32_MethodCalls ==
    [][outcome'.op = "dispatch" /\ outcome'.ins = "CALL_FUNCTION"
       => LET s0 == outcome'.stack0
              d == Len(s0)
              kw == outcome'.arg.n \div 256
              pos == outcome'.arg.n % 256
              base == d - (2 * kw + pos + 1)
              m == Methods[s0[base + 1].n]
              args == (IF m.im_self = NoneV THEN <<>> ELSE <<m.im_self>>)
                      \o SubSeq(s0, base + 2, base + 1 + pos)
              isinst == m.im_class = "int" /\ args[1].t \in {"int", "bool"}
          IN base >= 0 /\ s0[base + 1].t = "Method" /\ args # <<>>
             => /\ ~isinst => /\ outcome'.hraised = "TypeError"
                              /\ outcome'.why = "exception"
                              /\ Len(heap') = Len(heap)
                /\ isinst /\ outcome'.hraised = ""
                   => heap'[Len(heap')].f_locals.a = args[1]]_vars

\* C33: a call of an interpreted function that bound its arguments: for
\* generator code it returns a Generator that is neither started nor
\* finished, around the new frame, which has executed nothing and refers back
\* to the Generator; for other code the frame runs to completion and the call
\* returns its return value.
C33_CallWrapsOrRuns ==
    (outcome.op = "call" /\ outcome.fn \in FunctionNames /\ outcome.made)
        => /\ outcome.raised = ""
           /\ FunctionCode(outcome.fn).generator
              => /\ outcome.value.t = "Generator"
                 /\ ~gens[outcome.value.n].started
                 /\ ~gens[outcome.value.n].finished
                 /\ heap[gens[outcome.value.n].gi_frame].generator = outcome.value.n
                 /\ heap[gens[outcome.value.n].gi_frame].stack = <<>>
                 /\ heap[gens[outcome.value.n].gi_frame].f_lasti = IntV(0)
           /\ ~FunctionCode(outcome.fn).generator => outcome.value = return_value

\* C34: when a call has built a frame for code with cell variables, for every
\* such variable the new frame's cell table and the calling frame's (a dict
\* after the call) hold the same new Cell, and the Cell holds the new frame's
\* local value of the variable, None if the variable is not bound.
C34_CellsPublished ==
    [][outcome'.op = "call" /\ outcome'.fn \in FunctionNames /\ outcome'.made
       => LET cvars == FunctionCode(outcome'.fn).co_cellvars
          IN \A i \in 1..Len(cvars) :
               /\ outcome'.cells[cvars[i]] \in (Len(cellobjs) + 1)..Len(cellobjs')
               /\ ~heap'[outcome'.cur].cells.none
               /\ heap'[outcome'.cur].cells[cvars[i]] = outcome'.cells[cvars[i]]
               /\ cellobjs'[outcome'.cells[cvars[i]]] =
                    IF cvars[i] \in ParamNames /\ outcome'.locals[cvars[i]] # Unbound
                    THEN outcome'.locals[cvars[i]]
                    ELSE NoneV]_vars

\* hold(1) was called from frame 1, whose cell table was None: the frame
\* built and frame 1 hold Cell 1 under the name a, and the Cell holds 1.
C34_Witness ==
    /\ outcome.op = "call" /\ outcome.fn = "hold" /\ outcome.made
    /\ outcome.pos = <<IntV(1)>> /\ outcome.locals.a = IntV(1)
    /\ outcome.cells = [none |-> FALSE, counter |-> 0, a |-> 1]
    /\ heap[1].cells = [none |-> FALSE, counter |-> 0, a |-> 1]
    /\ cellobjs = <<IntV(1)>>

\* C35: a return through a finally block delivers the original value. The
\* finally transition for reason return leaves the stack at the block's level
\* (as it is, if it is shorter) with return_value and the token 'return' on top of it; END_FINALLY on a
\* stack that ends with a saved value and the token 'return' sets return_value
\* to the saved value, whatever return_value was, reports reason return and
\* leaves the stack without the two entries.
C35_ReturnThroughFinally ==
    [][/\ (outcome'.op = "manage_block_stack" /\ outcome'.why0 = "return"
           /\ outcome'.block.type = "finally" /\ outcome'.raised = "")
          => /\ heap'[frame].stack =
                  (IF Len(outcome'.stack0) > outcome'.block.level
                   THEN SubSeq(outcome'.stack0, 1, outcome'.block.level)
                   ELSE outcome'.stack0)
                  \o <<return_value, StrV("return")>>
             /\ outcome'.why = "none"
             /\ return_value' = return_value
       /\ (outcome'.op = "dispatch" /\ outcome'.ins = "END_FINALLY"
           /\ Len(outcome'.stack0) >= 2
           /\ outcome'.stack0[Len(outcome'.stack0)] = StrV("return"))
          => /\ return_value' = outcome'.stack0[Len(outcome'.stack0) - 1]
             /\ outcome'.why = "return"
             /\ outcome'.hraised = ""
             /\ heap'[frame].stack =
                  SubSeq(outcome'.stack0, 1, Len(outcome'.stack0) - 2)]_vars

\* 2 was returned in the try body and saved by the finally transition, the
\* handler body returned 1, and END_FINALLY has set return_value back to 2
\* with the stack at level 0.
C35_Witness ==
    /\ outcome.op = "dispatch" /\ outcome.ins = "END_FINALLY"
    /\ outcome.stack0 = <<IntV(2), StrV("return")>>
    /\ outcome.rv0 = IntV(1)
    /\ outcome.why = "return"
    /\ return_value = IntV(2)
    /\ heap[1].stack = <<>> /\ heap[1].block_stack = <<>>

\* C36: when WITH_CLEANUP runs on the stack the exception transition left,
\* the bound __exit__ that SETUP_WITH stored with the triple of the exception
\* on top of it, the handler calls that __exit__ once with (type, value,
\* traceback), and 'silenced' is on top of the stack afterwards exactly when
\* that __exit__ returns a true value.
C36_WithCleanupCallsExit ==
    LET s0 == outcome.stack0
        n == Len(s0)
    IN (outcome.op = "dispatch" /\ outcome.ins = "WITH_CLEANUP" /\ n >= 4
        /\ IsExcClass(s0[n]) /\ s0[n - 3].t = "CM" /\ s0[n - 3].s = "__exit__")
       => /\ outcome.exited = <<[cm |-> s0[n - 3].n, args |-> <<s0[n], s0[n - 1], s0[n - 2]>>]>>
          /\ (s0[n - 3].n # 0) <=> (/\ heap[outcome.cur].stack # <<>>
                                    /\ heap[outcome.cur].stack[Len(heap[outcome.cur].stack)]
                                         = StrV("silenced"))

\* C37: whenever dispatch has reported reason exception or reraise for an
\* instruction, last_exception is a triple whose type is an exception class.
C37_ExceptionRecorded ==
    (outcome.op = "dispatch" /\ outcome.why \in {"exception", "reraise"})
    => /\ Len(last_exception) = 3
       /\ IsExcClass(last_exception[1])

\* C38: a call of a closure of inc binds the free variable counter of the new
\* frame to the Cell the closure captured, whichever frame makes the call:
\* for each Cell an activation of make created, the call of the closure made
\* around it (the call does not read func_closure, so one step stands for the
\* call of each of them) builds a frame whose cell table holds that Cell.
C38_ClosureCellBound ==
    [][(outcome'.op = "call" /\ outcome'.fn = "inc")
       => \A cl \in 1..Len(cellobjs) :
            /\ outcome'.made
            /\ outcome'.cells.counter = cl]_vars

\* C39: a call that builds a frame leaves every name that the calling frame's
\* cell table held bound to the Cell it was bound to.
C39_CallerCellsKept ==
    [][(outcome'.op = "call" /\ outcome'.made /\ frame # 0 /\ ~heap[frame].cells.none)
       => /\ heap[frame].cells.counter # 0
             => heap'[frame].cells.counter = heap[frame].cells.counter
          /\ heap[frame].cells.a # 0
             => heap'[frame].cells.a = heap[frame].cells.a]_vars

\* C40: no call takes a Generator away or sets its started or finished back
\* from true to false, and after every call each Generator that is finished
\* was started.
C40_GeneratorFlags ==
    [][/\ Len(gens') >= Len(gens)
       /\ \A g \in 1..Len(gens) :
            /\ gens[g].started => gens'[g].started
            /\ gens[g].finished => gens'[g].finished
       /\ \A g \in 1..Len(gens') : gens'[g].finished => gens'[g].started]_vars

\* Generator 1 was resumed by send(None) and RETURN_VALUE on its frame has
\* marked it finished: both flags are set, and a Generator made after it has
\* neither.
C40_Witness ==
    /\ outcome.op = "dispatch" /\ outcome.ins = "RETURN_VALUE"
    /\ Len(gens) = 2
    /\ gens[1].started /\ gens[1].finished
    /\ ~gens[2].started /\ ~gens[2].finished
    /\ heap[frame].generator = 1

====
